---- MODULE Spec2Model ----
(***************************************************************************)
(* PyDio: a Provider (registry of unbound factories), Injectors that bind  *)
(* and cache factories per key, scoped child injectors, and close.         *)
(*                                                                         *)
(* Every call of inject / close / scoped is a frame on the calling         *)
(* thread's stack; a frame advances one step at a time, so that threads    *)
(* interleave at every point where the code reads or writes shared state.  *)
(***************************************************************************)
EXTENDS Integers, Sequences, FiniteSets, TLC

\* ------------------------------------------------------------------ bounds
MaxInjectors == 3
NumThreads == 2

Threads == 1..NumThreads
InjIds == 1..MaxInjectors

\* ------------------------------------------------------------ value domain
\* env=None and scope=None of the code
NoEnv == "None"
NoScope == "None"
Envs == {NoEnv, "testing", "other"}
ScopeNames == {"sc1", "sc2"}
\* the keys used with trees of injectors, and those used with one injector
\* that lives through close, `with` and `async with`
TreeKeys == {"foo", "db", "conn", "missing"}
LifeKeys == {"foo", "cfg", "db", "bad", "co", "ag"}
\* the keys of a provider that registers one function under two Variants
\* of the interface IFoo, IFoo1 = Variant(IFoo, foo='one') and
\* IFoo2 = Variant(IFoo, foo='two'), and another function under 'mock'
VariantKeys == {"mock", "IFoo1", "IFoo2"}
\* the keys of construction functions that raise before they return or yield:
\* a plain function and a generator function
SetupErrorKeys == {"ferr", "gerr"}
Keys == TreeKeys \cup LifeKeys \cup VariantKeys \cup SetupErrorKeys
\* Variant.key: the key that a Variant wraps; any other key is its own base
BaseKey(k) == IF k \in {"IFoo1", "IFoo2"} THEN "IFoo" ELSE k

\* Python values the model distinguishes.  An object built by a construction
\* function is identified by the factory that built it (key, the environment
\* the factory was registered for, the owning injector) and by the number of
\* the invocation that built it.
Val(tag, k, e, o, n) == [tag |-> tag, key |-> k, env |-> e, owner |-> o, n |-> n]
Obj(k, e, o, n) == Val("obj", k, e, o, n)
PyNone == Val("None", "", "", 0, 0)
Undefined == Val("_UNDEFINED", "", "", 0, 0)
Raised(name, k, e) == Val(name, k, e, 0, 0)
\* the coroutine do_async_close(awaitables) that _do_close of injector o
\* returns, made when the injector had n cache entries
Coroutine(o, n) == Val("coroutine", "", "", o, n)
\* the coroutine async_get_instance() of the factory that injector o holds
\* for key k
Awaitable(k, o) == Val("awaitable", k, "", o, 0)
ErrorTags == {"AlreadyClosedError", "NoProviderFoundError", "OutOfScopeError",
              "DoubleRegistrationError",
              "ValueError", "StopIteration", "StopAsyncIteration", "AttributeError",
              "RuntimeError", "OSError",
              "BodyError", "TeardownError", "SetupError"}
IsError(v) == v.tag \in ErrorTags

\* ---------------------------------------------------------------- provider
\* An unbound factory: the kind of bound factory its function selects
\* ("none": nothing registered), its scope, its environment, and the keys
\* that its function, when it takes the injector as a parameter, injects
\* from it.
Unbound(kind, scope, env) ==
    [kind |-> kind, scope |-> scope, env |-> env, needs |-> <<>>]
NotRegistered == Unbound("none", NoScope, NoEnv)

\* register_func(key, func, scope, env) on a provider without (key, env)
RegisterFunc(reg, key, kind, scope, env) ==
    [reg EXCEPT ![key][env] = Unbound(kind, scope, env)]

\* the function registered under key injects the keys of needs, in this order
Injecting(reg, key, needs) == [reg EXCEPT ![key][NoEnv].needs = needs]

EmptyProvider == [k \in Keys |-> [e \in Envs |-> NotRegistered]]

\* The provider the injectors of this model work on: a function and a
\* generator of the default scope, a generator of scope "sc1", and one key
\* registered both without environment and for "testing".
TestProvider ==
    RegisterFunc(RegisterFunc(RegisterFunc(RegisterFunc(EmptyProvider,
        "foo", "function", NoScope, NoEnv),
        "foo", "function", NoScope, "testing"),
        "db", "generator", NoScope, NoEnv),
        "conn", "generator", "sc1", NoEnv)

\* a lookup of (key, env) alone
ProviderGetExact(reg, key, env) == reg[key][env]

\* Provider.get
ProviderGet(reg, key, env) ==
    LET envs == reg[key]
        found == envs[env]
    IN  IF found.kind = "none" /\ env # NoEnv THEN envs[NoEnv] ELSE found

AwaitableKinds == {"coroutine", "asyncgenerator"}

\* a provider that never reports an awaitable factory
HasAwaitablesNever(reg) == FALSE

\* Provider.has_awaitables
HasAwaitables(reg) ==
    \E k \in Keys, e \in Envs : reg[k][e].kind \in AwaitableKinds

\* a provider that takes any registration
AvailableAlways(reg, key, env) == TRUE

\* Provider._check_key_availability: nothing is registered for (key, env)
Available(reg, key, env) == reg[key][env].kind = "none"

\* An entry of Provider._unbound_factories, as attach iterates over them.
Entry(key, kind, scope, env) == [key |-> key, env |-> env, unbound |-> Unbound(kind, scope, env)]

\* an attach that takes back what it has copied when it finds an entry that
\* is registered here already
RECURSIVE CopyOrUndo(_, _, _)
CopyOrUndo(before, reg, entries) ==
    IF entries = <<>> THEN [reg |-> reg, out |-> PyNone]
    ELSE LET x == Head(entries) IN
         IF reg[x.key][x.env].kind # "none"
         THEN [reg |-> before, out |-> Raised("DoubleRegistrationError", x.key, x.env)]
         ELSE CopyOrUndo(before, [reg EXCEPT ![x.key][x.env] = x.unbound], Tail(entries))

AttachFromOrUndo(reg, entries) == CopyOrUndo(reg, reg, entries)

\* Provider.attach: the entries of the other provider are checked and copied
\* one by one, up to the first that is registered here already.  Gives the
\* provider afterwards and the outcome of the call.
RECURSIVE AttachFrom(_, _)
AttachFrom(reg, entries) ==
    IF entries = <<>> THEN [reg |-> reg, out |-> PyNone]
    ELSE LET x == Head(entries) IN
         IF ~Available(reg, x.key, x.env)
         THEN [reg |-> reg, out |-> Raised("DoubleRegistrationError", x.key, x.env)]
         ELSE AttachFrom([reg EXCEPT ![x.key][x.env] = x.unbound], Tail(entries))

\* ------------------------------------------------------------------- state
VARIABLES
    registry,   \* Provider._unbound_factories
    injs,       \* the injectors created so far, in creation order
    lock,       \* Injector._lock of each injector: owner thread and depth
    stack,      \* per thread: the frames of the calls in progress
    calls,      \* per injector and key: invocations of the construction function
    tears,      \* per injector and key: runs of the code after the yield
    closing     \* per injector: _do_close has passed its guard at least once

vars == <<registry, injs, lock, stack, calls, tears, closing>>

\* A bound factory in a cache.  gen is the state of the generator object:
\* "created", "running", "suspended" (at its yield), "done"; "none" for a
\* factory without generator.
Bound(kind, env, inst, gen) == [kind |-> kind, env |-> env, inst |-> inst, gen |-> gen]
Absent == Bound("absent", NoEnv, Undefined, "none")

\* Injector.__init__
NewInjector(isOpen, env, scope, parent) ==
    [open |-> isOpen, env |-> env, scope |-> scope, parent |-> parent,
     kids |-> <<>>, cache |-> [k \in Keys |-> Absent], order |-> <<>>,
     alive |-> TRUE]

FreeLock == [owner |-> 0, count |-> 0]

\* A call in progress: the operation, the injector it runs on, its arguments,
\* the place it has reached (pc), whether it holds the injector's lock, its
\* loop index, the local `provider` of _do_close, whether the injector was
\* closed when the call was made, the phase of the generator it is running,
\* the kind of function or value a registration is given, the exception
\* that _do_close or an exit is given (None without), the number of cache
\* entries whose close a do_async_close was given, and the value the call
\* returns or the exception it raises.
Frame(op, i, k, sc, e) ==
    [op |-> op, inj |-> i, key |-> k, sc |-> sc, env |-> e, pc |-> "start",
     held |-> FALSE, idx |-> 0, prov |-> FALSE, pre |-> FALSE,
     phase |-> "none", fn |-> "none", exc |-> PyNone, len |-> 0,
     out |-> PyNone]

Live == 1..Len(injs)

\* Injector.is_closed
IsClosed(i) == ~injs[i].open

\* Injector._parent: the weak reference, None once the parent is gone
ParentOf(i) ==
    IF injs[i].parent # 0 /\ injs[injs[i].parent].alive THEN injs[i].parent ELSE 0

Top(t) == stack[t][Len(stack[t])]
Busy(t) == stack[t] # <<>>
At(t, op, pc) == Busy(t) /\ Top(t).op = op /\ Top(t).pc = pc

SetTop(t, f) == [stack EXCEPT ![t][Len(stack[t])] = f]
Push(t, f) == [stack EXCEPT ![t] = Append(@, f)]

\* A provider, and one root injector constructed on it with one of envs.
Fresh(reg, envs) ==
    /\ registry = reg
    /\ \E e \in envs : injs = <<NewInjector(TRUE, e, NoScope, 0)>>
    /\ lock = [i \in InjIds |-> FreeLock]
    /\ stack = [t \in Threads |-> <<>>]
    /\ calls = [i \in InjIds |-> [k \in Keys |-> 0]]
    /\ tears = [i \in InjIds |-> [k \in Keys |-> 0]]
    /\ closing = [i \in InjIds |-> FALSE]

InitWith(envs) == Fresh(TestProvider, envs)

Init == InitWith({NoEnv})

\* ------------------------------------------------------------ frame helpers
Finish(f, v) == [f EXCEPT !.pc = "done", !.out = v]

\* `with self._lock:` entered once more / left once
Acquired(l, t) == [owner |-> t, count |-> l.count + 1]
Released(l) == IF l.count = 1 THEN FreeLock ELSE [l EXCEPT !.count = @ - 1]

\* the injector and all its ancestors
RECURSIVE Chain(_)
Chain(i) == IF injs[i].parent = 0 THEN {i} ELSE {i} \cup Chain(injs[i].parent)

SetFactory(i, k, fac) == [injs EXCEPT ![i].cache[k] = fac]

\* -------------------------------------------------------------------- calls
\* The application calls injector.inject(key) on an injector it holds.
CallInject(t, i, k) ==
    /\ ~Busy(t)
    /\ i \in Live /\ injs[i].alive
    /\ stack' = Push(t, [Frame("inject", i, k, NoScope, NoEnv)
                            EXCEPT !.pre = IsClosed(i)])
    /\ UNCHANGED <<registry, injs, lock, calls, tears, closing>>

\* The application calls injector.close().
CallClose(t, i) ==
    /\ ~Busy(t)
    /\ i \in Live /\ injs[i].alive
    /\ stack' = Push(t, [Frame("close", i, "", NoScope, NoEnv)
                            EXCEPT !.pre = IsClosed(i)])
    /\ UNCHANGED <<registry, injs, lock, calls, tears, closing>>

ScopedInProgress == Cardinality({t \in Threads : Busy(t) /\ stack[t][1].op = "scoped"})

\* The application calls injector.scoped(scope, env).
CallScoped(t, i, sc, e) ==
    /\ ~Busy(t)
    /\ i \in Live /\ injs[i].alive
    /\ Len(injs) + ScopedInProgress < MaxInjectors
    /\ stack' = Push(t, [Frame("scoped", i, "", sc, e) EXCEPT !.pre = IsClosed(i)])
    /\ UNCHANGED <<registry, injs, lock, calls, tears, closing>>

\* The application, in thread t, drops its last reference to an injector that nothing else
\* holds strongly (its parent's list of children would): the injector is
\* collected, and the weak references its children hold to it are dead.
Collect(t, i) ==
    /\ ~Busy(t)
    /\ i \in Live /\ injs[i].alive
    /\ ParentOf(i) = 0
    /\ injs[i].kids # <<>>
    /\ \A u \in Threads : \A n \in 1..Len(stack[u]) : stack[u][n].inj # i
    /\ injs' = [injs EXCEPT ![i].alive = FALSE]
    /\ UNCHANGED <<registry, lock, stack, calls, tears, closing>>

\* `with self._lock:` of inject, scoped and _do_close: blocks while another
\* thread holds the lock, re-enters when this thread holds it.
Acquire(t) ==
    /\ Busy(t) /\ Top(t).pc = "acquire"
    /\ LET f == Top(t) IN
        /\ lock[f.inj].owner \in {0, t}
        /\ lock' = [lock EXCEPT ![f.inj] = Acquired(@, t)]
        /\ stack' = SetTop(t, [f EXCEPT !.pc = "locked", !.held = TRUE])
    /\ UNCHANGED <<registry, injs, calls, tears, closing>>

\* ------------------------------------------------------------------- inject
\* a cache that never finds a key
CachedNever(i, k) == FALSE

\* `key in self._cache`
Cached(i, k) == injs[i].cache[k].kind # "absent"

\* inject, the check made before the lock is taken
InjectStart(t) ==
    /\ At(t, "inject", "start")
    /\ LET f == Top(t) IN
        stack' = SetTop(t, [f EXCEPT !.pc = IF Cached(f.inj, f.key)
                                              THEN "get" ELSE "acquire"])
    /\ UNCHANGED <<registry, injs, lock, calls, tears, closing>>

\* inject without the second look at the cache
CachedUnderLockNever(i, k) == FALSE

\* inject, `if key in self._cache` under the lock: another thread may have
\* bound the factory while this one waited
CachedUnderLock(i, k) == Cached(i, k)

\* an inject that never asks the parent
DelegateToNobody(i) == 0

\* inject, `self._parent` when the scope of the factory is not the
\* injector's: the injector the call is delegated to, 0 when there is none
DelegateTo(i) == ParentOf(i)

\* a function that is given the wrapped key of a Variant, not the Variant
KeyArgumentBase(k) == BaseKey(k)

\* __make_partial, `kwargs['key'] = self._key`: the function is given the key
\* that it was registered under, which is the key the provider found the
\* unbound factory by
KeyArgument(k) == k

\* unbound_instance.bind(injector): the bound factory class is selected by the
\* kind of the function.  A FunctionFactory calls the function when it is
\* constructed (invocation number n); a GeneratorFactory, an
\* AsyncGeneratorFactory and a CoroutineFactory only create the generator or
\* the coroutine object, none of the function's code runs; an InstanceFactory
\* holds the registered value.
Bind(unbound, i, k, n) ==
    CASE unbound.kind \in {"generator", "asyncgenerator", "coroutine"} ->
            Bound(unbound.kind, unbound.env, Undefined, "created")
      [] unbound.kind = "instance" ->
            Bound("instance", unbound.env, Obj(k, unbound.env, 0, 0), "none")
      [] OTHER ->
            Bound("function", unbound.env,
                  Obj(KeyArgument(k), unbound.env, i, n), "none")

\* what binding adds to the count of runs of the function's code
BindCalls(unbound) ==
    IF unbound.kind \in {"generator", "asyncgenerator", "coroutine", "instance"}
    THEN 0 ELSE 1

\* an inject that takes every factory for one of the injector's scope
ScopeNeverDiffers(unbound, i) == FALSE

\* `unbound_instance.scope != self._scope`
ScopeDiffers(unbound, i) == unbound.scope # injs[i].scope

\* an inject that takes whatever the provider returns for a factory
NotFoundNever(unbound) == FALSE

\* `unbound_instance is None`
NotFound(unbound) == unbound.kind = "none"

\* a construction function that injects nothing
NestedNone(unbound) == <<>>

\* The calls injector.inject(key) that the construction function makes on
\* the injector it is given, which is the one the factory is bound to
\* (functools.partial(func, injector=injector)).
Nested(unbound) == unbound.needs

\* `unbound_instance.bind(self)` raises what the function raises when the
\* bound factory is a FunctionFactory, whose __init__ calls the function
BindRaises(unbound, k) == unbound.kind = "function" /\ k \in SetupErrorKeys

\* inject, under the lock, up to and including `self._cache[key] = instance`;
\* up to the call of a function that injects from the injector, when the
\* bound factory is a FunctionFactory, which calls it at once.
InjectLocked(t) ==
    /\ At(t, "inject", "locked")
    /\ LET f == Top(t)
           i == f.inj
           k == f.key
           unbound == ProviderGet(registry, k, injs[i].env)
       IN
        IF IsClosed(i) THEN
            /\ stack' = SetTop(t, Finish(f, Raised("AlreadyClosedError", "", "")))
            /\ UNCHANGED <<injs, calls>>
        ELSE IF CachedUnderLock(i, k) THEN
            /\ stack' = SetTop(t, [f EXCEPT !.pc = "get"])
            /\ UNCHANGED <<injs, calls>>
        ELSE IF NotFound(unbound) THEN
            /\ stack' = SetTop(t, Finish(f, Raised("NoProviderFoundError", k, injs[i].env)))
            /\ UNCHANGED <<injs, calls>>
        ELSE IF ScopeDiffers(unbound, i) THEN
            /\ IF DelegateTo(i) # 0
               THEN stack' = [stack EXCEPT ![t] =
                        Append([@ EXCEPT ![Len(@)].pc = "delegated"],
                               Frame("inject", DelegateTo(i), k, NoScope, NoEnv))]
               ELSE stack' = SetTop(t, Finish(f, Raised("OutOfScopeError", k, injs[i].scope)))
            /\ UNCHANGED <<injs, calls>>
        ELSE IF unbound.kind = "function" /\ Nested(unbound) # <<>> THEN
            /\ stack' = SetTop(t, [f EXCEPT !.pc = "construct", !.idx = 1])
            /\ UNCHANGED <<injs, calls>>
        ELSE IF BindRaises(unbound, k) THEN
            /\ calls' = [calls EXCEPT ![i][k] = @ + 1]
            /\ stack' = SetTop(t, Finish(f, Raised("SetupError", k, "")))
            /\ UNCHANGED injs
        ELSE
            /\ injs' = [injs EXCEPT ![i].cache[k] = Bind(unbound, i, k, calls[i][k] + 1),
                                    ![i].order = Append(@, k)]
            /\ calls' = [calls EXCEPT ![i][k] = @ + BindCalls(unbound)]
            /\ stack' = SetTop(t, [f EXCEPT !.pc = "get"])
    /\ UNCHANGED <<registry, lock, tears, closing>>

\* a construction function that is given the injector of the application's
\* call
HandedCallee(t) == stack[t][1].inj

\* `unbound_instance.bind(self)`, functools.partial(func, injector=injector):
\* the injector that the construction function is given is the one whose
\* inject binds the factory
Handed(t) == Top(t).inj

\* The construction function called by FunctionFactory.__init__ runs, with
\* the lock of the injector held: it calls injector.inject for the next key
\* it needs, or returns the instance, which is bound and put in the cache
\* (`self._cache[key] = instance`).
Construct(t) ==
    /\ At(t, "inject", "construct")
    /\ LET f == Top(t)
           i == f.inj
           k == f.key
           unbound == ProviderGet(registry, k, injs[i].env)
           needs == Nested(unbound)
       IN
        IF f.idx <= Len(needs) THEN
            /\ stack' = Push(t, Frame("inject", Handed(t), needs[f.idx], NoScope, NoEnv))
            /\ UNCHANGED <<injs, calls>>
        ELSE IF BindRaises(unbound, k) THEN
            /\ calls' = [calls EXCEPT ![i][k] = @ + 1]
            /\ stack' = SetTop(t, Finish(f, Raised("SetupError", k, "")))
            /\ UNCHANGED injs
        ELSE
            /\ injs' = [injs EXCEPT ![i].cache[k] = Bind(unbound, i, k, calls[i][k] + 1),
                                    ![i].order = Append(@, k)]
            /\ calls' = [calls EXCEPT ![i][k] = @ + BindCalls(unbound)]
            /\ stack' = SetTop(t, [f EXCEPT !.pc = "get"])
    /\ UNCHANGED <<registry, lock, tears, closing>>

\* a get_instance that resumes the generator at every call
NotYetBuiltAlways(fac) == TRUE

\* GeneratorFactory.get_instance: `self._instance is _UNDEFINED`
NotYetBuilt(fac) == fac.inst = Undefined

\* get_instance of the cached factory: FunctionFactory and InstanceFactory
\* return their instance, GeneratorFactory tests
\* `self._instance is _UNDEFINED` first, CoroutineFactory and
\* AsyncGeneratorFactory return the coroutine async_get_instance().
GetInstance(t) ==
    /\ At(t, "inject", "get")
    /\ LET f == Top(t)
           fac == injs[f.inj].cache[f.key]
       IN
        stack' = SetTop(t, IF fac.kind \in AwaitableKinds
                           THEN Finish(f, Awaitable(f.key, f.inj))
                           ELSE IF fac.kind = "generator" /\ NotYetBuilt(fac)
                           THEN [f EXCEPT !.pc = "gen_call"]
                           ELSE Finish(f, fac.inst))
    /\ UNCHANGED <<registry, injs, lock, calls, tears, closing>>

\* GeneratorFactory.get_instance: next(self._generator) is called.  A created
\* generator starts running its setup code; a generator suspended at its
\* yield is resumed and starts running the code after the yield; a generator
\* that is running in another thread raises ValueError; a finished one
\* raises StopIteration.
GenCall(t) ==
    /\ At(t, "inject", "gen_call")
    /\ LET f == Top(t)
           i == f.inj
           k == f.key
           fac == injs[i].cache[k]
       IN
        CASE fac.gen = "created" ->
                /\ injs' = SetFactory(i, k, [fac EXCEPT !.gen = "running"])
                /\ calls' = [calls EXCEPT ![i][k] = @ + 1]
                /\ stack' = SetTop(t, [f EXCEPT !.pc = "gen_run", !.phase = "setup"])
          [] fac.gen = "suspended" ->
                /\ injs' = SetFactory(i, k, [fac EXCEPT !.gen = "running"])
                /\ stack' = SetTop(t, [f EXCEPT !.pc = "gen_run", !.phase = "teardown"])
                /\ UNCHANGED calls
          [] fac.gen = "running" ->
                /\ stack' = SetTop(t, Finish(f, Raised("ValueError", "", "")))
                /\ UNCHANGED <<injs, calls>>
          [] OTHER ->
                /\ stack' = SetTop(t, Finish(f, Raised("StopIteration", "", "")))
                /\ UNCHANGED <<injs, calls>>
    /\ UNCHANGED <<registry, lock, tears, closing>>

\* The keys whose generator function raises in the code after its yield.
RaisingKeys == {"bad"}

\* A generator that has run to its end: normally ("done"), through its
\* exception branch ("failed"), or by raising after its yield ("broken").
GenFinished(fac) == fac.gen \in {"done", "failed", "broken"}

\* The generator started by GenCall stops: at its yield (next returns the
\* yielded object), by the exception that its code before the yield raises
\* (the generator is finished, _instance stays _UNDEFINED), or at its end
\* (next raises StopIteration, or what the code after the yield raises).
GenRun(t) ==
    /\ At(t, "inject", "gen_run")
    /\ LET f == Top(t)
           i == f.inj
           k == f.key
           fac == injs[i].cache[k]
       IN
        IF f.phase = "setup" /\ k \in SetupErrorKeys THEN
            /\ injs' = SetFactory(i, k, [fac EXCEPT !.gen = "broken"])
            /\ stack' = SetTop(t, Finish(f, Raised("SetupError", k, "")))
            /\ UNCHANGED tears
        ELSE IF f.phase = "setup" THEN
            /\ injs' = SetFactory(i, k, [fac EXCEPT !.gen = "suspended"])
            /\ stack' = SetTop(t, [f EXCEPT !.pc = "gen_assign",
                                            !.out = Obj(k, fac.env, i, calls[i][k])])
            /\ UNCHANGED tears
        ELSE
            /\ injs' = SetFactory(i, k, [fac EXCEPT !.gen = IF k \in RaisingKeys
                                                            THEN "broken" ELSE "done"])
            /\ tears' = [tears EXCEPT ![i][k] = @ + 1]
            /\ stack' = SetTop(t, Finish(f, IF k \in RaisingKeys
                                            THEN Raised("TeardownError", k, "")
                                            ELSE Raised("StopIteration", "", "")))
    /\ UNCHANGED <<registry, lock, calls, closing>>

\* GeneratorFactory.get_instance: `self._instance = <what next returned>`
GenAssign(t) ==
    /\ At(t, "inject", "gen_assign")
    /\ LET f == Top(t) IN
        /\ injs' = [injs EXCEPT ![f.inj].cache[f.key].inst = f.out]
        /\ stack' = SetTop(t, [f EXCEPT !.pc = "done"])
    /\ UNCHANGED <<registry, lock, calls, tears, closing>>

\* -------------------------------------------------------------------- close
\* a _do_close that goes on whatever the state of the injector
CloseGuardAlways(i) == TRUE

\* _do_close: `if self._provider is not None:`, tested before the lock is taken
CloseGuard(i) == ~IsClosed(i)

CloseStart(t) ==
    /\ At(t, "close", "start")
    /\ LET f == Top(t) IN
        stack' = SetTop(t, IF CloseGuard(f.inj)
                           THEN [f EXCEPT !.pc = "acquire"]
                           ELSE Finish(f, PyNone))
    /\ UNCHANGED <<registry, injs, lock, calls, tears, closing>>

\* _do_close under the lock: `provider = self._provider`
CloseLocked(t) ==
    /\ At(t, "close", "locked")
    /\ LET f == Top(t) IN
        /\ stack' = SetTop(t, [f EXCEPT !.pc = "kids", !.idx = 1,
                                        !.prov = injs[f.inj].open])
        /\ closing' = [closing EXCEPT ![f.inj] = TRUE]
    /\ UNCHANGED <<registry, injs, lock, calls, tears>>

\* a _do_close that visits no child
NoChildInjectors(i) == <<>>

\* _do_close: the children `for child in self._child_injectors` visits
ChildInjectors(i) == injs[i].kids

\* _do_close: `for child in self._child_injectors:
\* child._do_close(exc_type, exc, tb)`
CloseKids(t) ==
    /\ At(t, "close", "kids")
    /\ LET f == Top(t)
           kids == ChildInjectors(f.inj)
       IN
        stack' = IF f.idx <= Len(kids)
                 THEN Push(t, [Frame("close", kids[f.idx], "", NoScope, NoEnv)
                                  EXCEPT !.exc = f.exc])
                 ELSE SetTop(t, [f EXCEPT !.pc = "cache", !.idx = 1])
    /\ UNCHANGED <<registry, injs, lock, calls, tears, closing>>

\* a cache that is gone through from its newest entry to its oldest
RECURSIVE Reversed(_)
Reversed(seq) == IF seq = <<>> THEN <<>> ELSE Append(Reversed(Tail(seq)), Head(seq))

CacheValuesReversed(i) == Reversed(injs[i].order)

\* `self._cache.values()`: the keys of the bound factories of the cache, in
\* the order in which they were bound (a dict keeps insertion order)
CacheValues(i) == injs[i].order

\* _do_close: `for instance in self._cache.values():
\* instance.close(exc_type, exc, tb)`, one entry per step.
\* FunctionFactory.close and InstanceFactory.close set the instance to None.
\* CoroutineFactory.close and AsyncGeneratorFactory.close return a coroutine
\* and do nothing yet.  GeneratorFactory.close sets the instance to None and,
\* when it was not _UNDEFINED, resumes the generator: with
\* next(self._generator) when no exception is given (StopIteration is
\* swallowed, so a finished generator is passed over, and a created one would
\* start its setup), with self._generator.throw(...) when one is given (a
\* finished generator raises it back).  A generator that is running in
\* another thread raises ValueError.
CloseCache(t) ==
    /\ At(t, "close", "cache")
    /\ LET f == Top(t)
           i == f.inj
           order == CacheValues(i)
           k == order[f.idx]
           fac == injs[i].cache[k]
           closed == [fac EXCEPT !.inst = PyNone]
       IN
        IF f.idx > Len(order) THEN
            /\ stack' = SetTop(t, [f EXCEPT !.pc = "finish"])
            /\ UNCHANGED <<injs, calls>>
        ELSE IF fac.kind \in AwaitableKinds THEN
            /\ stack' = SetTop(t, [f EXCEPT !.idx = @ + 1])
            /\ UNCHANGED <<injs, calls>>
        ELSE IF fac.kind # "generator" \/ fac.inst = Undefined
                \/ (GenFinished(fac) /\ f.exc = PyNone) THEN
            /\ injs' = SetFactory(i, k, closed)
            /\ stack' = SetTop(t, [f EXCEPT !.idx = @ + 1])
            /\ UNCHANGED calls
        ELSE IF fac.gen = "running" THEN
            /\ injs' = SetFactory(i, k, closed)
            /\ stack' = SetTop(t, Finish(f, Raised("ValueError", "", "")))
            /\ UNCHANGED calls
        ELSE IF f.exc = PyNone THEN
            /\ injs' = SetFactory(i, k, [closed EXCEPT !.gen = "running"])
            /\ calls' = [calls EXCEPT ![i][k] = @ + (IF fac.gen = "created" THEN 1 ELSE 0)]
            /\ stack' = SetTop(t, [f EXCEPT !.pc = "cache_run",
                                   !.phase = IF fac.gen = "created" THEN "setup"
                                                                    ELSE "teardown"])
        ELSE IF fac.gen = "suspended" THEN
            /\ injs' = SetFactory(i, k, [closed EXCEPT !.gen = "running"])
            /\ stack' = SetTop(t, [f EXCEPT !.pc = "cache_run", !.phase = "except"])
            /\ UNCHANGED calls
        ELSE
            /\ injs' = SetFactory(i, k, [closed EXCEPT !.gen =
                            IF fac.gen = "created" THEN "done" ELSE fac.gen])
            /\ stack' = SetTop(t, Finish(f, f.exc))
            /\ UNCHANGED calls
    /\ UNCHANGED <<registry, lock, tears, closing>>

\* The generator resumed by CloseCache stops.  Resumed by next: at its end
\* after the teardown code has run (StopIteration, swallowed), by the
\* exception that this code raises, or at its yield.  Resumed by throw: its
\* exception branch has run, and whether the generator function handles the
\* exception or not, GeneratorFactory.close raises it (`raise exc`, `raise`,
\* or the exception leaving throw).
CloseCacheRun(t) ==
    /\ At(t, "close", "cache_run")
    /\ LET f == Top(t)
           i == f.inj
           k == CacheValues(i)[f.idx]
           fac == injs[i].cache[k]
       IN
        CASE f.phase = "teardown" /\ k \in RaisingKeys ->
                /\ injs' = SetFactory(i, k, [fac EXCEPT !.gen = "broken"])
                /\ tears' = [tears EXCEPT ![i][k] = @ + 1]
                /\ stack' = SetTop(t, Finish(f, Raised("TeardownError", k, "")))
          [] f.phase = "teardown" /\ k \notin RaisingKeys ->
                /\ injs' = SetFactory(i, k, [fac EXCEPT !.gen = "done"])
                /\ tears' = [tears EXCEPT ![i][k] = @ + 1]
                /\ stack' = SetTop(t, [f EXCEPT !.pc = "cache", !.idx = @ + 1])
          [] f.phase = "except" ->
                /\ injs' = SetFactory(i, k, [fac EXCEPT !.gen = "failed"])
                /\ stack' = SetTop(t, Finish(f, f.exc))
                /\ UNCHANGED tears
          [] OTHER ->
                /\ injs' = SetFactory(i, k, [fac EXCEPT !.gen = "suspended"])
                /\ stack' = SetTop(t, [f EXCEPT !.pc = "cache", !.idx = @ + 1])
                /\ UNCHANGED tears
    /\ UNCHANGED <<registry, lock, calls, closing>>

\* a close that reaches every injector sharing the provider
MarkClosedAll(i) == [j \in DOMAIN injs |-> [injs[j] EXCEPT !.open = FALSE]]

\* a close that leaves the provider in place
MarkClosedNever(i) == injs

\* _do_close: `self._provider = None`
MarkClosed(i) == [injs EXCEPT ![i].open = FALSE]

\* _do_close: `if not provider.has_awaitables(): self._provider = None`,
\* else the coroutine do_async_close(awaitables) is returned.  `provider` is
\* the local read under the lock: None when another close got there first.
CloseFinish(t) ==
    /\ At(t, "close", "finish")
    /\ LET f == Top(t) IN
        IF ~f.prov THEN
            /\ stack' = SetTop(t, Finish(f, Raised("AttributeError", "", "")))
            /\ UNCHANGED injs
        ELSE IF ~HasAwaitables(registry) THEN
            /\ injs' = MarkClosed(f.inj)
            /\ stack' = SetTop(t, Finish(f, PyNone))
        ELSE
            /\ stack' = SetTop(t, Finish(f, Coroutine(f.inj, Len(injs[f.inj].order))))
            /\ UNCHANGED injs
    /\ UNCHANGED <<registry, lock, calls, tears, closing>>

\* ------------------------------------------------------------------- scoped
\* `env or self._env`
EnvOr(e, own) == IF e # NoEnv THEN e ELSE own

\* a scoped that accepts any env
EnvConflictNever(e, parentEnv) == FALSE

\* scoped: `env is not None`, `parent_env is not None and parent_env != env`
EnvConflict(e, parentEnv) == e # NoEnv /\ parentEnv # NoEnv /\ parentEnv # e

\* scoped: the check of env, made before the lock is taken
ScopedStart(t) ==
    /\ At(t, "scoped", "start")
    /\ LET f == Top(t)
           parentEnv == injs[f.inj].env
       IN
        stack' = SetTop(t, IF EnvConflict(f.env, parentEnv)
                           THEN Finish(f, Raised("ValueError", "", f.env))
                           ELSE [f EXCEPT !.pc = "acquire"])
    /\ UNCHANGED <<registry, injs, lock, calls, tears, closing>>

\* scoped under the lock: the child gets this injector's provider (None when
\* this injector is closed), is appended to the children, and gets its
\* parent and scope.
ScopedLocked(t) ==
    /\ At(t, "scoped", "locked")
    /\ LET f == Top(t)
           i == f.inj
           child == Len(injs) + 1
       IN
        /\ injs' = Append([injs EXCEPT ![i].kids = Append(@, child)],
                          NewInjector(injs[i].open, EnvOr(f.env, injs[i].env), f.sc, i))
        /\ stack' = SetTop(t, Finish(f, Val("injector", "", "", child, 0)))
    /\ UNCHANGED <<registry, lock, calls, tears, closing>>

\* ------------------------------------------------------------------- return
\* The caller's frame once the call it made has returned v or raised v.
\* inject returns what the parent's inject returned; _do_close goes on with
\* the next child, do_async_close with the next awaitable, a construction
\* function with its next statement, and an exception leaves any of them.  The body of a
\* with statement goes on after a call that returned, and is left by an
\* exception.  __exit__ and __aexit__ return None, so that the exception of
\* the body goes on, unless the close they make raises; __aexit__ awaits the
\* coroutine that close returned.
Resumed(caller, v) ==
    CASE caller.op \in {"close", "aclose"} /\ ~IsError(v) ->
            [caller EXCEPT !.idx = @ + 1]
      [] caller.op = "inject" /\ caller.pc = "construct" ->
            IF IsError(v) THEN Finish(caller, v) ELSE [caller EXCEPT !.idx = @ + 1]
      [] caller.op \in {"with", "awith"} /\ caller.pc = "body" ->
            IF IsError(v) THEN [caller EXCEPT !.pc = "exit", !.exc = v] ELSE caller
      [] caller.op \in {"with", "awith"} /\ caller.pc = "closing" ->
            IF IsError(v) THEN Finish(caller, v)
            ELSE IF caller.op = "awith" /\ v.tag = "coroutine"
            THEN [caller EXCEPT !.pc = "await", !.len = v.n]
            ELSE Finish(caller, caller.exc)
      [] caller.op = "awith" /\ caller.pc = "awaiting" ->
            Finish(caller, IF IsError(v) THEN v ELSE caller.exc)
      [] OTHER ->
            Finish(caller, v)

\* A call returns or raises: the lock it holds is released, and its caller,
\* or the application, gets the outcome.
Return(t) ==
    /\ Busy(t) /\ Top(t).pc = "done"
    /\ LET f == Top(t)
           n == Len(stack[t])
       IN
        /\ lock' = IF f.held THEN [lock EXCEPT ![f.inj] = Released(@)] ELSE lock
        /\ stack' = [stack EXCEPT ![t] =
                IF n = 1 THEN <<>>
                ELSE [SubSeq(@, 1, n - 1) EXCEPT ![n - 1] = Resumed(@, f.out)]]
    /\ UNCHANGED <<registry, injs, calls, tears, closing>>

\* ------------------------------------------------------------ specification
\* The application, in thread t, makes a call on one of its injectors.
Call(t, keys, scopes, envs) ==
    \/ \E i \in InjIds, k \in keys : CallInject(t, i, k)
    \/ \E i \in InjIds : CallClose(t, i)
    \/ \E i \in InjIds, sc \in scopes, e \in envs : CallScoped(t, i, sc, e)

InjectStep(t) ==
    \/ InjectStart(t)
    \/ InjectLocked(t)
    \/ GetInstance(t)
    \/ GenCall(t)
    \/ GenRun(t)
    \/ GenAssign(t)

CloseStep(t) ==
    \/ CloseStart(t)
    \/ CloseLocked(t)
    \/ CloseKids(t)
    \/ CloseCache(t)
    \/ CloseCacheRun(t)
    \/ CloseFinish(t)

ScopedStep(t) ==
    \/ ScopedStart(t)
    \/ ScopedLocked(t)

Step(t) ==
    \/ Acquire(t)
    \/ InjectStep(t)
    \/ CloseStep(t)
    \/ ScopedStep(t)
    \/ Return(t)

\* One thread uses a tree of injectors without environment: every call runs
\* to its end before the next one is made.
Next ==
    \/ Call(1, TreeKeys, ScopeNames, {NoEnv})
    \/ Step(1)
    \/ \E i \in InjIds : Collect(1, i)

Spec == Init /\ [][Next]_vars

\* One thread uses a tree of injectors with environments: the root is
\* constructed with any environment, and scoped() is given any.
EnvInit == InitWith(Envs)

EnvNext ==
    \/ Call(1, TreeKeys \ {"db"}, ScopeNames, {NoEnv, "testing"})
    \/ Step(1)
    \/ \E i \in InjIds : Collect(1, i)

EnvSpec == EnvInit /\ [][EnvNext]_vars

\* Several threads use one injector.
ConcNext ==
    \E t \in Threads :
        \/ \E k \in {"foo", "db"} : CallInject(t, 1, k)
        \/ CallClose(t, 1)
        \/ Acquire(t)
        \/ InjectStep(t)
        \/ CloseStep(t)
        \/ Return(t)

ConcSpec == Init /\ [][ConcNext]_vars

\* An injector and the child that its scoped("sc1") returned, on the
\* provider reg.
WithChild(reg) ==
    /\ registry = reg
    /\ injs = <<[NewInjector(TRUE, NoEnv, NoScope, 0) EXCEPT !.kids = <<2>>],
                NewInjector(TRUE, NoEnv, "sc1", 1)>>
    /\ lock = [i \in InjIds |-> FreeLock]
    /\ stack = [t \in Threads |-> <<>>]
    /\ calls = [i \in InjIds |-> [k \in Keys |-> 0]]
    /\ tears = [i \in InjIds |-> [k \in Keys |-> 0]]
    /\ closing = [i \in InjIds |-> FALSE]

\* Several threads use an injector and its scoped child: they inject from
\* the child keys of the child's scope and of the parent's, and close
\* either injector.
FamilyInit == WithChild(TestProvider)

FamilyStep(t) ==
    \/ Acquire(t)
    \/ InjectStep(t)
    \/ CloseStep(t)
    \/ Return(t)

FamilyNext ==
    \E t \in Threads :
        \/ \E k \in {"foo", "conn"} : CallInject(t, 2, k)
        \/ \E i \in {1, 2} : CallClose(t, i)
        \/ FamilyStep(t)

FamilySpec == FamilyInit /\ [][FamilyNext]_vars

\* The same, with threads that go on: a thread that can take a step again
\* and again, be it the taking of a lock that other threads take and
\* release, takes it in the end.
FamilyFairSpec == FamilySpec /\ \A t \in Threads : SF_vars(FamilyStep(t))

\* --------------------------------------------------------------- life cycle
\* A provider of synchronous factories: a function, an instance, a
\* generator, and a generator whose code after the yield raises.
SyncProvider ==
    RegisterFunc(RegisterFunc(RegisterFunc(RegisterFunc(EmptyProvider,
        "foo", "function", NoScope, NoEnv),
        "cfg", "instance", NoScope, NoEnv),
        "db", "generator", NoScope, NoEnv),
        "bad", "generator", NoScope, NoEnv)

\* A provider that has awaitable factories too: a generator, a coroutine
\* function, an asynchronous generator, and an asynchronous generator whose
\* code after the yield raises.
AsyncProvider ==
    RegisterFunc(RegisterFunc(RegisterFunc(RegisterFunc(EmptyProvider,
        "db", "generator", NoScope, NoEnv),
        "co", "coroutine", NoScope, NoEnv),
        "ag", "asyncgenerator", NoScope, NoEnv),
        "bad", "asyncgenerator", NoScope, NoEnv)

\* The caller of thread t's topmost call is the application: in its own
\* code, or in the body of a with statement.
CalledByApplication(t) ==
    \/ Len(stack[t]) = 1
    \/ /\ Len(stack[t]) > 1
       /\ stack[t][Len(stack[t]) - 1].op \in {"with", "awith"}
       /\ stack[t][Len(stack[t]) - 1].pc = "body"

\* The application awaits what inject or close has just returned to it: the
\* coroutine async_get_instance() of an awaitable factory, or the coroutine
\* do_async_close(awaitables) of an injector.
Await(t) ==
    /\ Busy(t) /\ Top(t).pc \in {"done", "pending"}
    /\ Top(t).op \in {"inject", "close"}
    /\ Top(t).out.tag \in {"awaitable", "coroutine"}
    /\ CalledByApplication(t)
    /\ LET f == Top(t)
           v == f.out
       IN
        /\ lock' = IF f.held THEN [lock EXCEPT ![f.inj] = Released(@)] ELSE lock
        /\ stack' = SetTop(t, IF v.tag = "awaitable"
                              THEN Frame("aget", v.owner, v.key, NoScope, NoEnv)
                              ELSE [Frame("aclose", v.owner, "", NoScope, NoEnv)
                                        EXCEPT !.len = v.n])
    /\ UNCHANGED <<registry, injs, calls, tears, closing>>

\* an awaitable factory that evaluates its awaitable at every call
NotYetAwaitedAlways(fac) == TRUE

\* CoroutineFactory and AsyncGeneratorFactory, async_get_instance:
\* `self._instance is _UNDEFINED`
NotYetAwaited(fac) == fac.inst = Undefined

\* async_get_instance runs: on the first await the coroutine made at
\* construction is awaited (the coroutine function's code runs, and a
\* coroutine that was awaited before raises RuntimeError), or the
\* asynchronous generator is resumed with __anext__ (its code runs up to the
\* yield, or from the yield to its end, which raises StopAsyncIteration, or
\* what the code after the yield raises); the value is kept in _instance.
\* Later awaits return _instance.  phase tells which of the two happened.
\* An asynchronous generator that is running for another task raises
\* RuntimeError, as a coroutine that another task is awaiting does.
AsyncGetInstance(t) ==
    /\ At(t, "aget", "start")
    /\ LET f == Top(t)
           i == f.inj
           k == f.key
           fac == injs[i].cache[k]
           n == calls[i][k] + 1
           new == Obj(k, fac.env, i, n)
       IN
        IF ~NotYetAwaited(fac) THEN
            /\ stack' = SetTop(t, [Finish(f, fac.inst) EXCEPT !.phase = "cached"])
            /\ UNCHANGED <<injs, calls, tears>>
        ELSE IF fac.gen = "created" THEN
            /\ injs' = SetFactory(i, k, [fac EXCEPT !.inst = new,
                            !.gen = IF fac.kind = "coroutine" THEN "done" ELSE "suspended"])
            /\ calls' = [calls EXCEPT ![i][k] = n]
            /\ stack' = SetTop(t, [Finish(f, new) EXCEPT !.phase = "first"])
            /\ UNCHANGED tears
        ELSE IF fac.kind = "coroutine" \/ fac.gen = "running" THEN
            /\ stack' = SetTop(t, Finish(f, Raised("RuntimeError", k, "")))
            /\ UNCHANGED <<injs, calls, tears>>
        ELSE IF fac.gen = "suspended" THEN
            /\ injs' = SetFactory(i, k, [fac EXCEPT !.gen = IF k \in RaisingKeys
                                                            THEN "broken" ELSE "done"])
            /\ tears' = [tears EXCEPT ![i][k] = @ + 1]
            /\ stack' = SetTop(t, Finish(f, IF k \in RaisingKeys
                                            THEN Raised("TeardownError", k, "")
                                            ELSE Raised("StopAsyncIteration", "", "")))
            /\ UNCHANGED calls
        ELSE
            /\ stack' = SetTop(t, Finish(f, Raised("StopAsyncIteration", "", "")))
            /\ UNCHANGED <<injs, calls, tears>>
    /\ UNCHANGED <<registry, lock, closing>>

\* async_get_instance, the first await, when the code of the coroutine
\* function, or the setup of the asynchronous generator, awaits something
\* itself: the task is suspended inside `await self._awaitable` or
\* `await self._generator.__anext__()`, _instance is still _UNDEFINED.
AsyncGetSuspend(t) ==
    /\ At(t, "aget", "start")
    /\ LET f == Top(t)
           fac == injs[f.inj].cache[f.key]
       IN
        /\ NotYetAwaited(fac) /\ fac.gen = "created"
        /\ injs' = SetFactory(f.inj, f.key, [fac EXCEPT !.gen = "running"])
        /\ calls' = [calls EXCEPT ![f.inj][f.key] = @ + 1]
        /\ stack' = SetTop(t, [f EXCEPT !.pc = "suspended"])
    /\ UNCHANGED <<registry, lock, tears, closing>>

\* async_get_instance: the suspended construction goes on to its return or
\* to its yield, and `self._instance = ` its value
AsyncGetResume(t) ==
    /\ At(t, "aget", "suspended")
    /\ LET f == Top(t)
           fac == injs[f.inj].cache[f.key]
           new == Obj(f.key, fac.env, f.inj, calls[f.inj][f.key])
       IN
        /\ injs' = SetFactory(f.inj, f.key, [fac EXCEPT !.inst = new,
                        !.gen = IF fac.kind = "coroutine" THEN "done" ELSE "suspended"])
        /\ stack' = SetTop(t, [Finish(f, new) EXCEPT !.phase = "first"])
    /\ UNCHANGED <<registry, lock, calls, tears, closing>>

\* A task keeps the coroutine that inject or close has returned to it, to
\* await it later: the call has returned, the lock is released.
Hold(t) ==
    /\ Len(stack[t]) = 1 /\ Top(t).pc = "done"
    /\ Top(t).op \in {"inject", "close"}
    /\ Top(t).out.tag \in {"awaitable", "coroutine"}
    /\ LET f == Top(t) IN
        /\ lock' = IF f.held THEN [lock EXCEPT ![f.inj] = Released(@)] ELSE lock
        /\ stack' = SetTop(t, [f EXCEPT !.pc = "pending", !.held = FALSE])
    /\ UNCHANGED <<registry, injs, calls, tears, closing>>

\* do_async_close starts to run: `self._provider = None`
AsyncCloseStart(t) ==
    /\ At(t, "aclose", "start")
    /\ injs' = MarkClosed(Top(t).inj)
    /\ stack' = SetTop(t, [Top(t) EXCEPT !.pc = "kids", !.idx = 1])
    /\ UNCHANGED <<registry, lock, calls, tears, closing>>

\* do_async_close: `for awaitable in awaitables: await awaitable`, the
\* awaitables that _do_close got from the children, which come first in the
\* list: the coroutine do_async_close of every child whose _do_close passed
\* its guard, that is of every child that was open.  The coroutine is
\* awaited as soon as close has returned it, so a child is open now when it
\* was open then.
AsyncCloseKids(t) ==
    /\ At(t, "aclose", "kids")
    /\ LET f == Top(t)
           kids == injs[f.inj].kids
       IN
        stack' = IF f.idx > Len(kids)
                 THEN SetTop(t, [f EXCEPT !.pc = "loop", !.idx = 1])
                 ELSE IF IsClosed(kids[f.idx])
                 THEN SetTop(t, [f EXCEPT !.idx = @ + 1])
                 ELSE Push(t, [Frame("aclose", kids[f.idx], "", NoScope, NoEnv)
                                  EXCEPT !.len = Len(CacheValues(kids[f.idx])),
                                         !.exc = f.exc])
    /\ UNCHANGED <<registry, injs, lock, calls, tears, closing>>

\* do_async_close: `for awaitable in awaitables: await awaitable`, one cache
\* entry per step; the entries of factories that are not awaitable gave no
\* awaitable.  CoroutineFactory's async_close sets the instance to None.
\* AsyncGeneratorFactory's async_close sets it to None and, when it was not
\* _UNDEFINED, resumes the generator: with __anext__ (the code after the
\* yield runs; StopAsyncIteration is swallowed, what that code raises is
\* not), or with athrow when an exception is given (the exception branch
\* runs, and the exception is raised).
AsyncCloseLoop(t) ==
    /\ At(t, "aclose", "loop")
    /\ LET f == Top(t)
           i == f.inj
           k == CacheValues(i)[f.idx]
           fac == injs[i].cache[k]
           closed == [fac EXCEPT !.inst = PyNone]
           next == [f EXCEPT !.idx = @ + 1]
       IN
        IF f.idx > f.len THEN
            /\ stack' = SetTop(t, Finish(f, PyNone))
            /\ UNCHANGED <<injs, calls, tears>>
        ELSE IF fac.kind \notin AwaitableKinds THEN
            /\ stack' = SetTop(t, next)
            /\ UNCHANGED <<injs, calls, tears>>
        ELSE IF fac.kind = "coroutine" \/ fac.inst = Undefined
                \/ (GenFinished(fac) /\ f.exc = PyNone) THEN
            /\ injs' = SetFactory(i, k, closed)
            /\ stack' = SetTop(t, next)
            /\ UNCHANGED <<calls, tears>>
        ELSE IF f.exc # PyNone THEN
            /\ injs' = SetFactory(i, k, [closed EXCEPT !.gen =
                            IF fac.gen = "suspended" THEN "failed" ELSE fac.gen])
            /\ stack' = SetTop(t, Finish(f, f.exc))
            /\ UNCHANGED <<calls, tears>>
        ELSE IF k \in RaisingKeys THEN
            /\ injs' = SetFactory(i, k, [closed EXCEPT !.gen = "broken"])
            /\ tears' = [tears EXCEPT ![i][k] = @ + 1]
            /\ stack' = SetTop(t, Finish(f, Raised("TeardownError", k, "")))
            /\ UNCHANGED calls
        ELSE
            /\ injs' = SetFactory(i, k, [closed EXCEPT !.gen = "done"])
            /\ tears' = [tears EXCEPT ![i][k] = @ + 1]
            /\ stack' = SetTop(t, next)
            /\ UNCHANGED calls
    /\ UNCHANGED <<registry, lock, closing>>

\* The application enters `with injector:` (op "with") or
\* `async with injector:` (op "awith"): __enter__ and __aenter__ return the
\* injector.
EnterWith(t, i, op) ==
    /\ ~Busy(t)
    /\ i \in Live /\ injs[i].alive
    /\ stack' = Push(t, [Frame(op, i, "", NoScope, NoEnv)
                            EXCEPT !.pc = "body", !.pre = IsClosed(i)])
    /\ UNCHANGED <<registry, injs, lock, calls, tears, closing>>

InBody(t) == Busy(t) /\ Top(t).op \in {"with", "awith"} /\ Top(t).pc = "body"

\* The body of the with statement calls injector.inject(key).
BodyInject(t, k) ==
    /\ InBody(t)
    /\ stack' = Push(t, [Frame("inject", Top(t).inj, k, NoScope, NoEnv)
                            EXCEPT !.pre = IsClosed(Top(t).inj)])
    /\ UNCHANGED <<registry, injs, lock, calls, tears, closing>>

\* The body of the with statement comes to its end.
BodyEnd(t) ==
    /\ InBody(t)
    /\ stack' = SetTop(t, [Top(t) EXCEPT !.pc = "exit"])
    /\ UNCHANGED <<registry, injs, lock, calls, tears, closing>>

\* The body of the with statement raises an exception of its own.
BodyRaise(t) ==
    /\ InBody(t)
    /\ stack' = SetTop(t, [Top(t) EXCEPT !.pc = "exit",
                                         !.exc = Raised("BodyError", "", "")])
    /\ UNCHANGED <<registry, injs, lock, calls, tears, closing>>

\* __exit__ and __aexit__: `self.close()` when the body raised nothing,
\* `self._do_close(exc_type, exc, tb)` when it did.
Exit(t) ==
    /\ Busy(t) /\ Top(t).op \in {"with", "awith"} /\ Top(t).pc = "exit"
    /\ LET f == Top(t) IN
        stack' = [stack EXCEPT ![t] =
                    Append([@ EXCEPT ![Len(@)].pc = "closing"],
                           [Frame("close", f.inj, "", NoScope, NoEnv)
                                EXCEPT !.exc = f.exc, !.pre = IsClosed(f.inj)])]
    /\ UNCHANGED <<registry, injs, lock, calls, tears, closing>>

\* __aexit__: `if inspect.iscoroutine(maybe_coroutine): await maybe_coroutine`.
\* The coroutine's awaitables were made by close with the exception of the
\* body.
ExitAwait(t) ==
    /\ At(t, "awith", "await")
    /\ LET f == Top(t) IN
        stack' = [stack EXCEPT ![t] =
                    Append([@ EXCEPT ![Len(@)].pc = "awaiting"],
                           [Frame("aclose", f.inj, "", NoScope, NoEnv)
                                EXCEPT !.len = f.len, !.exc = f.exc])]
    /\ UNCHANGED <<registry, injs, lock, calls, tears, closing>>

Registered(k) == registry[k][NoEnv].kind # "none"

\* One thread, or one task, uses one injector through its whole life, on a
\* provider of synchronous factories or on one that has awaitable factories:
\* it injects, awaits, closes, and runs with statements.
LifeInit == \E reg \in {SyncProvider, AsyncProvider} : Fresh(reg, {NoEnv})

LifeNext ==
    \/ \E k \in LifeKeys : Registered(k) /\ CallInject(1, 1, k)
    \/ CallClose(1, 1)
    \/ Await(1)
    \/ AsyncGetInstance(1)
    \/ AsyncCloseStart(1)
    \/ AsyncCloseKids(1)
    \/ AsyncCloseLoop(1)
    \/ \E op \in {"with", "awith"} : EnterWith(1, 1, op)
    \/ \E k \in LifeKeys : Registered(k) /\ BodyInject(1, k)
    \/ BodyEnd(1)
    \/ BodyRaise(1)
    \/ Exit(1)
    \/ ExitAwait(1)
    \/ Acquire(1)
    \/ InjectStep(1)
    \/ CloseStep(1)
    \/ Return(1)

LifeSpec == LifeInit /\ [][LifeNext]_vars

\* Task t is in code that does not await: the event loop runs no other task
\* until t is suspended in an await or holds a coroutine to await later.
InSyncCode(t) == Busy(t) /\ Top(t).pc \notin {"pending", "suspended"}

\* Several tasks of one event loop use one injector on a provider that has
\* awaitable factories; a task runs from one await to the next.
TaskInit == Fresh(AsyncProvider, {NoEnv})

\* no other task is in code that does not await
MayRun(t) == \A u \in Threads \ {t} : ~InSyncCode(u)

\* the keys that the tasks inject: the coroutine function and the
\* asynchronous generator
TaskKeys == {"co", "ag"}

\* the task that closes the injector; every task injects
Closer == CHOOSE t \in Threads : \A u \in Threads : t <= u

TaskNext ==
    \E t \in Threads :
        \/ MayRun(t) /\ \E k \in TaskKeys : CallInject(t, 1, k)
        \/ MayRun(t) /\ t = Closer /\ CallClose(t, 1)
        \/ MayRun(t) /\ Hold(t)
        \/ MayRun(t) /\ Await(t)
        \/ MayRun(t) /\ AsyncGetInstance(t)
        \/ MayRun(t) /\ AsyncGetSuspend(t)
        \/ MayRun(t) /\ AsyncGetResume(t)
        \/ MayRun(t) /\ AsyncCloseStart(t)
        \/ MayRun(t) /\ AsyncCloseKids(t)
        \/ MayRun(t) /\ AsyncCloseLoop(t)
        \/ MayRun(t) /\ Acquire(t)
        \/ MayRun(t) /\ InjectStart(t)
        \/ MayRun(t) /\ InjectLocked(t)
        \/ MayRun(t) /\ GetInstance(t)
        \/ MayRun(t) /\ CloseStart(t)
        \/ MayRun(t) /\ CloseLocked(t)
        \/ MayRun(t) /\ CloseKids(t)
        \/ MayRun(t) /\ CloseCache(t)
        \/ MayRun(t) /\ CloseFinish(t)
        \/ MayRun(t) /\ Return(t)

TaskSpec == TaskInit /\ [][TaskNext]_vars

\* The tasks that await what inject returns before anything else runs, or
\* never: only the coroutine that close returns is kept for later, so that
\* an async_get_instance that starts the construction belongs to a
\* get_instance() called in the same step of the event loop.
AtOnceNext ==
    \E t \in Threads :
        \/ MayRun(t) /\ \E k \in TaskKeys : CallInject(t, 1, k)
        \/ MayRun(t) /\ t = Closer /\ CallClose(t, 1)
        \/ MayRun(t) /\ Busy(t) /\ Top(t).op = "close" /\ Hold(t)
        \/ MayRun(t) /\ Await(t)
        \/ MayRun(t) /\ AsyncGetInstance(t)
        \/ MayRun(t) /\ AsyncGetSuspend(t)
        \/ MayRun(t) /\ AsyncGetResume(t)
        \/ MayRun(t) /\ AsyncCloseStart(t)
        \/ MayRun(t) /\ AsyncCloseKids(t)
        \/ MayRun(t) /\ AsyncCloseLoop(t)
        \/ MayRun(t) /\ Acquire(t)
        \/ MayRun(t) /\ InjectStart(t)
        \/ MayRun(t) /\ InjectLocked(t)
        \/ MayRun(t) /\ GetInstance(t)
        \/ MayRun(t) /\ CloseStart(t)
        \/ MayRun(t) /\ CloseLocked(t)
        \/ MayRun(t) /\ CloseKids(t)
        \/ MayRun(t) /\ CloseCache(t)
        \/ MayRun(t) /\ CloseFinish(t)
        \/ MayRun(t) /\ Return(t)

AtOnceSpec == TaskInit /\ [][AtOnceNext]_vars

\* A provider with two construction functions that raise, a plain function
\* and a generator function, beside two that do not.
SetupProvider ==
    RegisterFunc(RegisterFunc(RegisterFunc(RegisterFunc(EmptyProvider,
        "foo", "function", NoScope, NoEnv),
        "db", "generator", NoScope, NoEnv),
        "ferr", "function", NoScope, NoEnv),
        "gerr", "generator", NoScope, NoEnv)

\* the number of runs of one construction function after which the
\* application stops injecting its key
MaxAttempts == 3

\* The threads inject from one injector that is never closed.
SetupInit == Fresh(SetupProvider, {NoEnv})

SetupNext ==
    \E t \in Threads :
        \/ \E k \in Keys : /\ Registered(k) /\ calls[1][k] < MaxAttempts
                           /\ CallInject(t, 1, k)
        \/ Acquire(t)
        \/ InjectStart(t)
        \/ InjectLocked(t)
        \/ GetInstance(t)
        \/ GenCall(t)
        \/ GenRun(t)
        \/ GenAssign(t)
        \/ Return(t)

SetupSpec == SetupInit /\ [][SetupNext]_vars

\* A provider for an injector and its child of scope "sc1": a generator of
\* the default scope, and a generator and an asynchronous generator of
\* scope "sc1".
ScopedAsyncProvider ==
    RegisterFunc(RegisterFunc(RegisterFunc(EmptyProvider,
        "db", "generator", NoScope, NoEnv),
        "conn", "generator", "sc1", NoEnv),
        "ag", "asyncgenerator", "sc1", NoEnv)

\* One thread, or one task, uses an injector and its scoped child on a
\* provider that mixes generators and asynchronous generators: it injects,
\* awaits, and closes either injector.
FamilyLifeInit == WithChild(ScopedAsyncProvider)

FamilyLifeNext ==
    \/ \E i \in {1, 2}, k \in Keys : Registered(k) /\ CallInject(1, i, k)
    \/ \E i \in {1, 2} : CallClose(1, i)
    \/ Await(1)
    \/ AsyncGetInstance(1)
    \/ AsyncCloseStart(1)
    \/ AsyncCloseKids(1)
    \/ AsyncCloseLoop(1)
    \/ FamilyStep(1)

FamilyLifeSpec == FamilyLifeInit /\ [][FamilyLifeNext]_vars

\* A provider of functions, two of which take the injector: the function
\* of "conn" injects "foo" and "db" from it, that of "cfg" injects "conn".
NestProvider ==
    Injecting(Injecting(
        RegisterFunc(RegisterFunc(RegisterFunc(RegisterFunc(EmptyProvider,
            "foo", "function", NoScope, NoEnv),
            "db", "function", NoScope, NoEnv),
            "conn", "function", NoScope, NoEnv),
            "cfg", "function", NoScope, NoEnv),
        "conn", <<"foo", "db">>),
        "cfg", <<"conn">>)

\* Several threads inject from one injector on that provider.
NestInit == Fresh(NestProvider, {NoEnv})

NestNext ==
    \E t \in Threads :
        \/ \E k \in {"foo", "db", "conn", "cfg"} : CallInject(t, 1, k)
        \/ Acquire(t)
        \/ InjectStart(t)
        \/ InjectLocked(t)
        \/ Construct(t)
        \/ GetInstance(t)
        \/ Return(t)

NestSpec == NestInit /\ [][NestNext]_vars

\* A provider of functions over three scopes: "foo" of the default scope,
\* "db" and "conn" of the scope "sc1", "cfg" of the scope "sc2"; the function
\* of "conn" injects "foo" and "db", that of "cfg" injects "conn".
ChainProvider ==
    Injecting(Injecting(
        RegisterFunc(RegisterFunc(RegisterFunc(RegisterFunc(EmptyProvider,
            "foo", "function", NoScope, NoEnv),
            "db", "function", "sc1", NoEnv),
            "conn", "function", "sc1", NoEnv),
            "cfg", "function", "sc2", NoEnv),
        "conn", <<"foo", "db">>),
        "cfg", <<"conn">>)

\* a root injector, its child of scope "sc1" and the child of scope "sc2" of
\* that one
ChainInit ==
    /\ registry = ChainProvider
    /\ injs = <<[NewInjector(TRUE, NoEnv, NoScope, 0) EXCEPT !.kids = <<2>>],
                [NewInjector(TRUE, NoEnv, "sc1", 1) EXCEPT !.kids = <<3>>],
                NewInjector(TRUE, NoEnv, "sc2", 2)>>
    /\ lock = [i \in InjIds |-> FreeLock]
    /\ stack = [t \in Threads |-> <<>>]
    /\ calls = [i \in InjIds |-> [k \in Keys |-> 0]]
    /\ tears = [i \in InjIds |-> [k \in Keys |-> 0]]
    /\ closing = [i \in InjIds |-> FALSE]

\* The threads inject the keys of the functions that take the injector from
\* the innermost injector, and close the scoped injectors.
ChainNext ==
    \E t \in Threads :
        \/ \E i \in Live, k \in Keys :
                /\ injs[i].kids = <<>> /\ Nested(registry[k][NoEnv]) # <<>>
                /\ CallInject(t, i, k)
        \/ \E i \in Live : injs[i].parent # 0 /\ CallClose(t, i)
        \/ Acquire(t)
        \/ InjectStart(t)
        \/ InjectLocked(t)
        \/ Construct(t)
        \/ GetInstance(t)
        \/ CloseStart(t)
        \/ CloseLocked(t)
        \/ CloseKids(t)
        \/ CloseCache(t)
        \/ CloseFinish(t)
        \/ Return(t)

ChainSpec == ChainInit /\ [][ChainNext]_vars

\* ------------------------------------------------------------------ variant
\* Variant(key, *args, **kwargs): the wrapped key, the positional parameters
\* in the order given, and the named parameters, a dict, here the sequence
\* of its (name, value) items in the order given.
Variant(key, args, kwargs) == [key |-> key, args |-> args, kwargs |-> kwargs]

\* dict.items() as a set, and the equality of two dicts, which does not
\* depend on the order of their items
Items(kwargs) == {kwargs[n] : n \in 1..Len(kwargs)}
DictEq(d1, d2) == Items(d1) = Items(d2)

\* Variant.__hash__: hash(frozenset(itertools.chain([self._key],
\* self._args, self._kwargs.items()))).  The hash of a frozenset is a
\* function of its elements, and is given here as the frozenset: the key
\* and the positional parameters as 1-tuples, the items as pairs.
VariantHash(v) ==
    {<<v.key>>} \cup {<<v.args[n]>> : n \in 1..Len(v.args)} \cup Items(v.kwargs)

\* Variant.__eq__ on two Variants
VariantEq(a, b) ==
    /\ a.key = b.key
    /\ a.args = b.args
    /\ DictEq(a.kwargs, b.kwargs)

\* The Variants that the application builds: of two base keys, with up to
\* two positional parameters and up to two named ones, given in any order.
ParamValues == {"1", "2"}
ParamNames == {"a", "b"}
ArgLists ==
    {<<>>} \cup {<<x>> : x \in ParamValues}
KwargItems == ParamNames \X ParamValues
KwargLists ==
    {<<>>} \cup {<<x>> : x \in KwargItems}
          \cup {kw \in KwargItems \X KwargItems : kw[1][1] # kw[2][1]}
Variants == {Variant(k, as, kw) : k \in {"foo", "bar"}, as \in ArgLists, kw \in KwargLists}

\* The application compares two Variants, `a == b`, and takes their
\* hashes: the call, and its result.
CompareCall(t, a, b) ==
    /\ ~Busy(t)
    /\ stack' = Push(t, Frame("compare", 0, "", NoScope, NoEnv) @@ [a |-> a, b |-> b])
    /\ UNCHANGED <<registry, injs, lock, calls, tears, closing>>

Compare(t) ==
    /\ At(t, "compare", "start")
    /\ LET f == Top(t) IN
        stack' = SetTop(t, Finish(f, [tag |-> "compared",
                                      eq |-> VariantEq(f.a, f.b),
                                      ha |-> VariantHash(f.a),
                                      hb |-> VariantHash(f.b)]))
    /\ UNCHANGED <<registry, injs, lock, calls, tears, closing>>

VariantInit == Fresh(EmptyProvider, {NoEnv})

VariantNext ==
    \/ \E a \in Variants, b \in Variants : CompareCall(1, a, b)
    \/ Compare(1)
    \/ Return(1)

VariantSpec == VariantInit /\ [][VariantNext]_vars

\* ------------------------------------------------------- keys by Variant
\* One function registered under IFoo1 and IFoo2 by two stacked
\* `provides`; it takes the injector and the key, and injects 'mock'.
VariantProvider ==
    Injecting(Injecting(
        RegisterFunc(RegisterFunc(RegisterFunc(EmptyProvider,
            "mock", "function", NoScope, NoEnv),
            "IFoo2", "function", NoScope, NoEnv),
            "IFoo1", "function", NoScope, NoEnv),
        "IFoo2", <<"mock">>),
        "IFoo1", <<"mock">>)

\* Several threads inject the registered keys from one injector.
StackedInit == Fresh(VariantProvider, {NoEnv})

StackedNext ==
    \E t \in Threads :
        \/ \E k \in VariantKeys : CallInject(t, 1, k)
        \/ Acquire(t)
        \/ InjectStart(t)
        \/ InjectLocked(t)
        \/ Construct(t)
        \/ GetInstance(t)
        \/ Return(t)

StackedSpec == StackedInit /\ [][StackedNext]_vars

\* ---------------------------------------------------------------- CLI tools
\* A file is the sequence of its lines; a path that names no file.
MaxLines == 4
Missing == <<"<no such file>">>

\* file.readline() at the end of the file
Eof == ""

\* Lines of source files: an interpreter directive, an encoding declaration
\* that leave_first_line matches, the first line of the rendered preamble,
\* the notice inside a rendered preamble, and any other line.
Shebang == "#!/usr/bin/env python3"
Coding == "-*- coding: utf-8 -*-"
MarkerLine == "# -----------------------------------------------------------"
Notice == "# Copyright (C) 2021 Maciej Wiatrzyk"
Code == "import os"

\* update_path, `preamble` and `marker_line`: the preamble rendered for a
\* path starts and ends with the same line, and ends with a line break
Preamble == <<MarkerLine, Notice, MarkerLine>>

\* leave_first_line
LeaveFirstLine(line) == line \in {Shebang, Coding}

\* a rewrite that finds no preamble in a file
StartsWithMarkerNever(line) == FALSE

\* `line.startswith(marker_line)`
StartsWithMarker(line) == line = MarkerLine

\* src.readline() when pos lines have been read
ReadLine(src, pos) == IF pos < Len(src) THEN src[pos + 1] ELSE Eof

RECURSIVE FilesOf(_, _)
FilesOf(lines, n) ==
    IF n = 0 THEN {<<>>}
    ELSE LET shorter == FilesOf(lines, n - 1) IN
         shorter \cup {Append(f, l) : f \in shorter, l \in lines}

\* the source files that the tool finds in the project
SourceFiles == FilesOf({Shebang, Coding, MarkerLine, Code}, MaxLines)

\* what a tool keeps of one rewrite: the content under `path` and under
\* `path + '.old'`, the content that `path` had when the rewrite began,
\* the lines read from the source so far and the line read last, and
\* whether this is the first or the second rewrite of the file (`first` is
\* the content before the first one)
Rewrite(op, file, first, run) ==
    Frame(op, 0, "", NoScope, NoEnv) @@
    [path |-> file, old |-> Missing, orig |-> file, first |-> first,
     pos |-> 0, line |-> Eof, run |-> run]

\* shutil.move(path, path_old)
Moved(f) == [f EXCEPT !.old = f.path, !.path = Missing, !.pc = "open"]

\* shutil.move(path_old, path), followed by `raise`, of exception exc
Restored(f, exc) == Finish([f EXCEPT !.path = f.old, !.old = Missing],
                           Raised(exc, "", NoEnv))

\* an exception that no handler of the tool's function catches
NotHandled(f) == Finish(f, Raised("OSError", "", NoEnv))

\* copy_stats(path_old, path); os.unlink(path_old)
Unlinked(f) == Finish([f EXCEPT !.old = Missing], PyNone)

\* licenser.py, update_source_files: update_path(path) for a path of the scan
UpdatePathCall(t, file) ==
    /\ ~Busy(t)
    /\ stack' = Push(t, Rewrite("update_path", file, file, 1))
    /\ UNCHANGED <<registry, injs, lock, calls, tears, closing>>

\* the tool is run again, with the same parameters, on the file it has
\* rewritten
UpdatePathAgain(t) ==
    /\ Len(stack[t]) = 1 /\ At(t, "update_path", "done")
    /\ Top(t).run = 1 /\ ~IsError(Top(t).out)
    /\ stack' = SetTop(t, Rewrite("update_path", Top(t).path, Top(t).first, 2))
    /\ UNCHANGED <<registry, injs, lock, calls, tears, closing>>

\* update_path up to the `try`: the preamble is rendered, the file is moved
UpdatePathMove(t) ==
    /\ At(t, "update_path", "start")
    /\ stack' = SetTop(t, Moved(Top(t)))
    /\ UNCHANGED <<registry, injs, lock, calls, tears, closing>>

\* update_path: both files are opened, the first line is read and, when it
\* is to stay first, written and the next line read
UpdatePathOpen(t) ==
    /\ At(t, "update_path", "open")
    /\ LET f == Top(t)
           line == ReadLine(f.old, 0)
       IN  stack' = SetTop(t,
               IF LeaveFirstLine(line)
               THEN [f EXCEPT !.path = <<line>>, !.pos = 2,
                              !.line = ReadLine(f.old, 1), !.pc = "preamble"]
               ELSE [f EXCEPT !.path = <<>>, !.pos = 1,
                              !.line = line, !.pc = "preamble"])
    /\ UNCHANGED <<registry, injs, lock, calls, tears, closing>>

\* update_path: `dest.write(preamble)`, and the first line of a preamble
\* that the file has already is read over
UpdatePathPreamble(t) ==
    /\ At(t, "update_path", "preamble")
    /\ LET f == Top(t)
           g == [f EXCEPT !.path = @ \o Preamble]
       IN  stack' = SetTop(t,
               IF StartsWithMarker(f.line)
               THEN [g EXCEPT !.line = ReadLine(f.old, f.pos), !.pos = @ + 1,
                              !.pc = "skip"]
               ELSE [g EXCEPT !.pc = "copy"])
    /\ UNCHANGED <<registry, injs, lock, calls, tears, closing>>

\* update_path, `while not line.startswith(marker_line)`: one more line of
\* the old preamble is read over, or the line after its last line is read.
\* At the end of a file readline() returns '' again and again.
UpdatePathSkip(t) ==
    /\ At(t, "update_path", "skip")
    /\ LET f == Top(t)
           g == [f EXCEPT !.line = ReadLine(f.old, f.pos),
                          !.pos = IF f.pos < Len(f.old) THEN @ + 1 ELSE @]
       IN  stack' = SetTop(t,
               IF StartsWithMarker(f.line) THEN [g EXCEPT !.pc = "copy"] ELSE g)
    /\ UNCHANGED <<registry, injs, lock, calls, tears, closing>>

\* update_path, `while line`: the rest of the file is copied line by line
UpdatePathCopy(t) ==
    /\ At(t, "update_path", "copy")
    /\ LET f == Top(t) IN
        stack' = SetTop(t,
            IF f.line = Eof THEN [f EXCEPT !.pc = "stats"]
            ELSE [f EXCEPT !.path = Append(@, f.line),
                           !.line = ReadLine(f.old, f.pos),
                           !.pos = IF f.pos < Len(f.old) THEN @ + 1 ELSE @])
    /\ UNCHANGED <<registry, injs, lock, calls, tears, closing>>

\* update_path, `except Exception`: opening, reading or writing has raised
UpdatePathFail(t) ==
    /\ Busy(t) /\ Top(t).op = "update_path"
    /\ Top(t).pc \in {"open", "preamble", "skip", "copy"}
    /\ stack' = SetTop(t, Restored(Top(t), "OSError"))
    /\ UNCHANGED <<registry, injs, lock, calls, tears, closing>>

\* update_path, `else`: the file's owner and mode are copied and the backup
\* is removed; an exception of os.chown or os.chmod is raised outside the
\* `try` and leaves both files as they are
UpdatePathDone(t) ==
    /\ At(t, "update_path", "stats")
    /\ \/ stack' = SetTop(t, Unlinked(Top(t)))
       \/ stack' = SetTop(t, NotHandled(Top(t)))
    /\ UNCHANGED <<registry, injs, lock, calls, tears, closing>>

\* the text rendered from the template of the license
LicenseText == <<"MIT License", "Copyright (c) 2021 Maciej Wiatrzyk">>
LicenseFiles == {<<"MIT License", "Copyright (c) 2020 Maciej Wiatrzyk">>, LicenseText}

\* licenser.py, main: update_license(args)
UpdateLicenseCall(t, file) ==
    /\ ~Busy(t)
    /\ stack' = Push(t, Rewrite("update_license", file, file, 1))
    /\ UNCHANGED <<registry, injs, lock, calls, tears, closing>>

\* update_license: the text is rendered and LICENSE.txt is moved
UpdateLicenseMove(t) ==
    /\ At(t, "update_license", "start")
    /\ stack' = SetTop(t, Moved(Top(t)))
    /\ UNCHANGED <<registry, injs, lock, calls, tears, closing>>

\* update_license, `open(license_file_path, 'w')`, which may raise
UpdateLicenseOpen(t) ==
    /\ At(t, "update_license", "open")
    /\ \/ stack' = SetTop(t, [Top(t) EXCEPT !.path = <<>>, !.pc = "write"])
       \/ stack' = SetTop(t, NotHandled(Top(t)))
    /\ UNCHANGED <<registry, injs, lock, calls, tears, closing>>

\* update_license, `fd.write(license_text)`, which may raise, and the end
\* of the `with`
UpdateLicenseWrite(t) ==
    /\ At(t, "update_license", "write")
    /\ \/ stack' = SetTop(t, [Top(t) EXCEPT !.path = LicenseText, !.pc = "unlink"])
       \/ stack' = SetTop(t, NotHandled(Top(t)))
    /\ UNCHANGED <<registry, injs, lock, calls, tears, closing>>

\* update_license, `os.unlink(license_file_path_old)`
UpdateLicenseUnlink(t) ==
    /\ At(t, "update_license", "unlink")
    /\ stack' = SetTop(t, Unlinked(Top(t)))
    /\ UNCHANGED <<registry, injs, lock, calls, tears, closing>>

\* Lines of CHANGELOG.rst: a heading that _CHANGELOG_TAG_RE matches, the
\* line of dashes as long as that heading, and any other line; the heading
\* that update_changelog writes for the new version, and its line of dashes.
Unreleased == "(unreleased)"
Dashes == "------------"
ChangeNote == "- Added something"
NewHeading == "1.0.0 (2026-11-04)"
NewDashes == "------------------"
ChangelogFiles == FilesOf({Unreleased, Dashes, ChangeNote}, MaxLines)

\* tag.py, update: update_changelog(version), `with overwrite(path)`
OverwriteCall(t, file) ==
    /\ ~Busy(t)
    /\ stack' = Push(t, Rewrite("overwrite", file, file, 1))
    /\ UNCHANGED <<registry, injs, lock, calls, tears, closing>>

\* overwrite: the file is moved
OverwriteMove(t) ==
    /\ At(t, "overwrite", "start")
    /\ stack' = SetTop(t, Moved(Top(t)))
    /\ UNCHANGED <<registry, injs, lock, calls, tears, closing>>

\* overwrite: both files are opened, and the body of the `with` begins
OverwriteOpen(t) ==
    /\ At(t, "overwrite", "open")
    /\ stack' = SetTop(t, [Top(t) EXCEPT !.path = <<>>, !.pc = "heading"])
    /\ UNCHANGED <<registry, injs, lock, calls, tears, closing>>

\* update_changelog: the first line matches _CHANGELOG_TAG_RE and the
\* second is the line of dashes of its length
HeadingValid(first, second) == first = Unreleased /\ second = Dashes

\* update_changelog: the two lines of the heading are read and checked, a
\* ValueError is raised inside the `with` when they are not a heading, and
\* the heading of the new version is written otherwise
ChangelogHeading(t) ==
    /\ At(t, "overwrite", "heading")
    /\ LET f == Top(t) IN
        stack' = SetTop(t,
            IF HeadingValid(ReadLine(f.old, 0), ReadLine(f.old, 1))
            THEN [f EXCEPT !.path = <<NewHeading, NewDashes>>, !.pos = 3,
                           !.line = ReadLine(f.old, 2), !.pc = "copy"]
            ELSE Restored(f, "ValueError"))
    /\ UNCHANGED <<registry, injs, lock, calls, tears, closing>>

\* update_changelog, `for line in src`: the rest is copied line by line
ChangelogCopy(t) ==
    /\ At(t, "overwrite", "copy")
    /\ LET f == Top(t) IN
        stack' = SetTop(t,
            IF f.line = Eof THEN [f EXCEPT !.pc = "stats"]
            ELSE [f EXCEPT !.path = Append(@, f.line),
                           !.line = ReadLine(f.old, f.pos),
                           !.pos = IF f.pos < Len(f.old) THEN @ + 1 ELSE @])
    /\ UNCHANGED <<registry, injs, lock, calls, tears, closing>>

\* overwrite, the bare `except`: opening, reading or writing has raised
OverwriteFail(t) ==
    /\ Busy(t) /\ Top(t).op = "overwrite"
    /\ Top(t).pc \in {"open", "heading", "copy"}
    /\ stack' = SetTop(t, Restored(Top(t), "OSError"))
    /\ UNCHANGED <<registry, injs, lock, calls, tears, closing>>

\* overwrite, `else`: as in update_path
OverwriteDone(t) ==
    /\ At(t, "overwrite", "stats")
    /\ \/ stack' = SetTop(t, Unlinked(Top(t)))
       \/ stack' = SetTop(t, NotHandled(Top(t)))
    /\ UNCHANGED <<registry, injs, lock, calls, tears, closing>>

\* A developer runs the tools on the files of a project, one file after
\* another, and the license-header tool a second time on a file it has
\* stamped.
ToolInit == Fresh(EmptyProvider, {NoEnv})

ToolNext ==
    \/ \E file \in SourceFiles : UpdatePathCall(1, file)
    \/ UpdatePathAgain(1)
    \/ UpdatePathMove(1)
    \/ UpdatePathOpen(1)
    \/ UpdatePathPreamble(1)
    \/ UpdatePathSkip(1)
    \/ UpdatePathCopy(1)
    \/ UpdatePathFail(1)
    \/ UpdatePathDone(1)
    \/ \E file \in LicenseFiles : UpdateLicenseCall(1, file)
    \/ UpdateLicenseMove(1)
    \/ UpdateLicenseOpen(1)
    \/ UpdateLicenseWrite(1)
    \/ UpdateLicenseUnlink(1)
    \/ \E file \in ChangelogFiles : OverwriteCall(1, file)
    \/ OverwriteMove(1)
    \/ OverwriteOpen(1)
    \/ ChangelogHeading(1)
    \/ ChangelogCopy(1)
    \/ OverwriteFail(1)
    \/ OverwriteDone(1)
    \/ Return(1)

ToolSpec == ToolInit /\ [][ToolNext]_vars

\* =================================================================== claims
\* Thread t's outermost call, of operation op, has finished: its outcome is
\* about to reach the application.
Finished(t, op) ==
    Len(stack[t]) = 1 /\ stack[t][1].op = op /\ stack[t][1].pc = "done"

\* the unbound factory that inject(k) on injector i gets from the provider
Found(i, k) == ProviderGet(registry, k, injs[i].env)

\* The injector expected to own the instance that inject(k) on injector i
\* gives: the nearest one, from i towards the root, whose scope is the scope
\* of the factory it finds; 0 when there is none.
RECURSIVE Owner(_, _)
Owner(i, k) ==
    IF Found(i, k).kind = "none" THEN 0
    ELSE IF Found(i, k).scope = injs[i].scope THEN i
    ELSE IF injs[i].parent = 0 THEN 0
    ELSE Owner(injs[i].parent, k)

NotClosing(i) == \A j \in Chain(i) : ~closing[j]

\* C1: on an injector on which close was never called, whatever inject(key)
\* returns, at every call, is one and the same object: the one built by the
\* first invocation of the construction function of the factory that the
\* owning injector found, and that function has been invoked exactly once.
C1_SameObjectBuiltOnce ==
    \A t \in Threads :
        (Finished(t, "inject") /\ ~IsError(stack[t][1].out) /\ NotClosing(stack[t][1].inj))
        => LET f == stack[t][1]
               o == Owner(f.inj, f.key)
           IN  /\ o # 0
               /\ f.out = Obj(f.key, Found(o, f.key).env, o, 1)
               /\ calls[o][f.key] = 1

\* a repeated inject("db"), served from the cache without the lock, returns
\* the object
C1_Witness ==
    \E t \in Threads :
        /\ Finished(t, "inject")
        /\ stack[t][1].key = "db" /\ ~stack[t][1].held
        /\ stack[t][1].out.tag = "obj"

\* C3: every inject called on a closed injector raises AlreadyClosedError.
C3_InjectAfterCloseRaises ==
    \A t \in Threads :
        (Finished(t, "inject") /\ stack[t][1].pre)
        => stack[t][1].out.tag = "AlreadyClosedError"

\* C2: when threads call inject(key) of a function factory concurrently on
\* one injector, the function is invoked at most once, and every caller that
\* returns before any close gets the object of that one invocation.
C2_OneConstructionForAllThreads ==
    /\ \A i \in Live, k \in Keys : Found(i, k).kind = "function" => calls[i][k] <= 1
    /\ \A t \in Threads :
        (/\ Finished(t, "inject")
         /\ Found(stack[t][1].inj, stack[t][1].key).kind = "function"
         /\ ~closing[stack[t][1].inj])
        => LET f == stack[t][1]
           IN  f.out = Obj(f.key, Found(f.inj, f.key).env, f.inj, 1)

\* a thread missed the cache for "foo" and holds the lock now, about to look
\* again, while another thread has built and cached the object and is gone
C2_Witness ==
    \E t, u \in Threads :
        /\ t # u
        /\ At(t, "inject", "locked") /\ Top(t).key = "foo"
        /\ Cached(Top(t).inj, "foo")
        /\ calls[Top(t).inj]["foo"] = 1
        /\ ~Busy(u) /\ ~closing[Top(t).inj]

\* Thread t is inside a close() that the application called on an injector
\* that was closed already.
ClosingAgain(t) ==
    Busy(t) /\ stack[t][1].op = "close" /\ stack[t][1].pre

\* C4: close() on an injector that is already closed, in an application that
\* uses its injectors from one thread, changes no injector (all
\* stay as closed or open as they were, no factory is touched), runs no setup
\* and no teardown code, raises nothing and returns None.
C4_CloseOnClosedIsNoOp ==
    [][\A t \in Threads :
        ClosingAgain(t)
        => /\ injs' = injs
           /\ calls' = calls
           /\ tears' = tears
           /\ stack'[t] # <<>> => /\ Len(stack'[t]) = 1
                                  /\ stack'[t][1].out = PyNone
                                  /\ IsClosed(stack[t][1].inj)']_vars

\* a second close() of an injector whose generator was torn down by the first
\* has returned None
C4_Witness ==
    \E t \in Threads :
        /\ Finished(t, "close") /\ stack[t][1].pre
        /\ stack[t][1].out = PyNone
        /\ tears[stack[t][1].inj]["db"] = 1

Idle == \A t \in Threads : ~Busy(t)

\* the outermost call that thread t is in is of operation op
Within(t, op) == Busy(t) /\ stack[t][1].op = op

\* C5: for a generator-based factory used by one thread, the setup code runs
\* at most once, during an inject of its key, and has run once when that
\* inject has cached the factory; the teardown code runs only during a close,
\* at most once and never without the setup, and has run once when the close
\* of an injector whose setup had run is over.
C5_SetupOnceTeardownOnce ==
    /\ [](\A i \in Live, k \in Keys :
            Found(i, k).kind = "generator"
            => /\ calls[i][k] <= 1
               /\ tears[i][k] <= calls[i][k]
               /\ ~closing[i] => tears[i][k] = 0
               /\ Idle /\ Cached(i, k) => calls[i][k] = 1
               /\ Idle /\ IsClosed(i) => tears[i][k] = calls[i][k])
    /\ [][\A i \in Live, k \in Keys :
            /\ calls'[i][k] # calls[i][k]
               => \E t \in Threads : Within(t, "inject") /\ stack[t][1].key = k
            /\ tears'[i][k] # tears[i][k]
               => \E t \in Threads : Within(t, "close")]_vars

\* inject("db"), close(), close() are over: one setup, one teardown
C5_Witness ==
    \E t \in Threads :
        /\ Finished(t, "close") /\ stack[t][1].pre
        /\ calls[stack[t][1].inj]["db"] = 1
        /\ tears[stack[t][1].inj]["db"] = 1
        /\ injs[stack[t][1].inj].cache["db"].gen = "done"

\* the injectors created from injector i through scoped(), at any depth
Descendants(i) == {j \in Live : j # i /\ i \in Chain(j)}

\* C6: when a close() of an injector, in an application that uses its
\* injectors from one thread, has completed, the injector and every
\* injector created from it through scoped(), at any depth, are closed, and
\* the generator of every generator-based factory that any of them has cached
\* has had its teardown code run, exactly once.
C6_CloseClosesDescendants ==
    \A t \in Threads :
        (Finished(t, "close") /\ stack[t][1].out = PyNone)
        => \A j \in {stack[t][1].inj} \cup Descendants(stack[t][1].inj) :
            /\ IsClosed(j)
            /\ \A k \in Keys :
                injs[j].cache[k].kind = "generator"
                => tears[j][k] = 1 /\ injs[j].cache[k].gen = "done"

\* the first close() of a root has completed; the root held "db", its child
\* of scope "sc1" held "conn" and had a child of its own
C6_Witness ==
    \E t \in Threads :
        /\ Finished(t, "close") /\ ~stack[t][1].pre
        /\ stack[t][1].inj = 1
        /\ Len(injs) = 3 /\ injs[2].parent = 1 /\ injs[3].parent = 2
        /\ tears[1]["db"] = 1 /\ tears[2]["conn"] = 1
        /\ IsClosed(3)

\* the injectors from which injector i was created, at any distance
Ancestors(i) == Chain(i) \ {i}

\* C7: while a close() called on a scoped injector runs, in an application
\* that uses its injectors from one thread, no ancestor of that injector
\* changes: each stays as open as it was, with the same cache, the same
\* instances in it and the same children, and none of its factories is set
\* up or torn down.
C7_CloseLeavesAncestors ==
    [][\A t \in Threads :
        Within(t, "close")
        => \A a \in Ancestors(stack[t][1].inj) :
            /\ injs'[a] = injs[a]
            /\ calls'[a] = calls[a]
            /\ tears'[a] = tears[a]]_vars

\* the first close() of a child of scope "sc1" is over: its own "conn" is
\* torn down, the root is open and still holds the object of "db"
C7_Witness ==
    \E t \in Threads :
        /\ Finished(t, "close") /\ ~stack[t][1].pre
        /\ stack[t][1].inj # 1 /\ 1 \in Ancestors(stack[t][1].inj)
        /\ tears[stack[t][1].inj]["conn"] = 1
        /\ ~IsClosed(1) /\ injs[1].cache["db"].inst = Obj("db", NoEnv, 1, 1)
        /\ tears[1]["db"] = 0

ScopeErrors == {"OutOfScopeError", "NoProviderFoundError"}

\* inject(k) on injector i, all open, finds a factory and an injector of the
\* factory's scope: i or, asked in turn, one of its living ancestors
RECURSIVE Resolves(_, _)
Resolves(i, k) ==
    IF Found(i, k).kind = "none" THEN FALSE
    ELSE IF Found(i, k).scope = injs[i].scope THEN TRUE
    ELSE IF ParentOf(i) = 0 THEN FALSE
    ELSE Resolves(ParentOf(i), k)

\* C8: an inject(key) on an open injector raises OutOfScopeError or
\* NoProviderFoundError exactly when it finds no factory, or no injector of
\* the factory's scope up to the root; and when it does raise, inject(key)
\* succeeds on none of the open injectors from which the injector was created
\* through scoped(), at any depth.
C8_DescendantResolvesWhatAncestorDoes ==
    \A t \in Threads :
        (Finished(t, "inject") /\ ~IsClosed(stack[t][1].inj))
        => LET f == stack[t][1]
           IN  /\ f.out.tag \in ScopeErrors <=> ~Resolves(f.inj, f.key)
               /\ f.out.tag \in ScopeErrors
                  => \A a \in Ancestors(f.inj) :
                        (injs[a].alive /\ ~IsClosed(a)) => ~Resolves(a, f.key)

\* inject("foo") on an injector of environment "testing", two scoped() calls
\* away from the root, has returned the object that the root owns
C8_Witness ==
    \E t \in Threads :
        /\ Finished(t, "inject") /\ stack[t][1].key = "foo"
        /\ stack[t][1].inj = 3 /\ injs[3].parent = 2 /\ injs[2].parent = 1
        /\ injs[3].env = "testing"
        /\ ~IsClosed(3)
        /\ stack[t][1].out.tag = "obj" /\ stack[t][1].out.owner = 1

\* key k is registered, and all its registrations are under scope sc
RegisteredOnlyUnder(k, sc) ==
    /\ \E e \in Envs : registry[k][e].kind # "none"
    /\ \A e \in Envs : registry[k][e].kind # "none" => registry[k][e].scope = sc

\* C9: an inject(key) on an open injector that finds a factory for the key,
\* the key being registered only under a scope S that neither the injector
\* nor any injector it was created from has (a root, a sibling scope), raises
\* OutOfScopeError, and none of these injectors has bound or cached a factory
\* for the key or invoked its function.
C9_OutOfScopeBindsNothing ==
    \A t \in Threads, sc \in ScopeNames :
        (/\ Finished(t, "inject") /\ ~IsClosed(stack[t][1].inj)
         /\ Found(stack[t][1].inj, stack[t][1].key).kind # "none"
         /\ RegisteredOnlyUnder(stack[t][1].key, sc)
         /\ \A j \in Chain(stack[t][1].inj) : injs[j].scope # sc)
        => /\ stack[t][1].out.tag = "OutOfScopeError"
           /\ stack[t][1].out.key = stack[t][1].key
           /\ \A j \in Chain(stack[t][1].inj) :
                ~Cached(j, stack[t][1].key) /\ calls[j][stack[t][1].key] = 0

\* inject("conn") on an injector of scope "sc2" has raised OutOfScopeError
\* while its sibling of scope "sc1" holds the object of "conn"
C9_Witness ==
    \E t \in Threads, i, j \in Live :
        /\ Finished(t, "inject") /\ stack[t][1].key = "conn"
        /\ stack[t][1].inj = i /\ ~IsClosed(i)
        /\ injs[i].scope = "sc2" /\ injs[i].parent = 1
        /\ injs[j].scope = "sc1" /\ injs[j].parent = 1
        /\ injs[j].cache["conn"].inst.tag = "obj"
        /\ stack[t][1].out.tag = "OutOfScopeError"

\* the environment of the registration of key k that an injector of
\* environment e is to use: e when k is registered for e, else none
ExpectedEnv(k, e) == IF registry[k][e].kind # "none" THEN e ELSE NoEnv

\* every injector that an inject on injector i may reach has i's environment:
\* a root constructed with it, and the scoped injectors that inherit it
SameEnvChain(i) == \A j \in Chain(i) : injs[j].env = injs[i].env

\* C10: an inject(key) on an open injector constructed with environment E
\* (none included) raises NoProviderFoundError exactly when the key is
\* registered neither for E nor without environment, and an object it
\* returns is built by the factory registered for (key, E) when there is one,
\* else by the one registered without environment.
C10_EnvironmentResolution ==
    \A t \in Threads :
        (/\ Finished(t, "inject") /\ ~IsClosed(stack[t][1].inj)
         /\ SameEnvChain(stack[t][1].inj))
        => LET f == stack[t][1]
               e == injs[f.inj].env
           IN  /\ f.out.tag = "NoProviderFoundError"
                  <=> registry[f.key][ExpectedEnv(f.key, e)].kind = "none"
               /\ f.out.tag = "obj"
                  => f.out.key = f.key /\ f.out.env = ExpectedEnv(f.key, e)

\* a root constructed with an environment under which nothing is registered
\* has returned, for "foo", the object of the environment-less factory
C10_Witness ==
    \E t \in Threads :
        /\ Finished(t, "inject") /\ stack[t][1].inj = 1
        /\ injs[1].env = "other"
        /\ stack[t][1].out = Obj("foo", NoEnv, 1, 1)

\* C11: the environments that are set along one chain of ancestors are equal;
\* a scoped(scope, env=e) on an injector whose environment is set and is not
\* e raises ValueError and adds no injector and no child; and the injector
\* that a scoped() returns has the env given, or its parent's when none was.
C11_OneEnvironmentPerChain ==
    /\ [](\A i \in Live : \A j \in Chain(i) :
            (injs[i].env # NoEnv /\ injs[j].env # NoEnv) => injs[i].env = injs[j].env)
    /\ [](\A t \in Threads :
            Finished(t, "scoped")
            => LET f == stack[t][1]
                   c == f.out.owner
               IN  IF f.env # NoEnv /\ injs[f.inj].env \notin {NoEnv, f.env}
                   THEN f.out.tag = "ValueError"
                   ELSE /\ f.out.tag = "injector"
                        /\ injs[c].parent = f.inj
                        /\ injs[c].env = IF f.env # NoEnv THEN f.env ELSE injs[f.inj].env)
    /\ [][\A t \in Threads :
            (/\ Within(t, "scoped")
             /\ stack[t][1].env # NoEnv
             /\ injs[stack[t][1].inj].env \notin {NoEnv, stack[t][1].env})
            => injs' = injs]_vars

\* scoped(scope, env="testing") on a root constructed with env "other" has
\* raised, the root having a child already
C11_Witness ==
    \E t \in Threads :
        /\ Finished(t, "scoped") /\ stack[t][1].inj = 1
        /\ injs[1].env = "other" /\ stack[t][1].env = "testing"
        /\ stack[t][1].out.tag = "ValueError"
        /\ Len(injs) = 2 /\ injs[2].env = "other"

\* ---------------------------------------------------- provider registration
\* The calls of the Provider are made before any injector uses it, by one
\* thread; each runs to its end in one step, and its outcome is left in a
\* finished frame for the application to take.
ProviderCall(op, k, fn, sc, e, pre, out) ==
    [Frame(op, 0, k, sc, e) EXCEPT !.fn = fn, !.pre = pre, !.pc = "done", !.out = out]

\* Provider.register_func(key, func, scope, env), and the decorator
\* Provider.provides(key, scope, env)(func), which calls it and returns func.
\* fn is the kind of func.
RegisterFuncCall(t, op, k, fn, sc, e) ==
    /\ ~Busy(t)
    /\ op \in {"register_func", "provides"}
    /\ LET free == Available(registry, k, e) IN
        /\ registry' = IF free THEN RegisterFunc(registry, k, fn, sc, e) ELSE registry
        /\ stack' = Push(t, ProviderCall(op, k, fn, sc, e, ~free,
                        IF ~free THEN Raised("DoubleRegistrationError", k, e)
                        ELSE IF op = "provides" THEN Val("function", k, e, 0, 0)
                        ELSE PyNone))
    /\ UNCHANGED <<injs, lock, calls, tears, closing>>

\* Provider.register_instance(key, value, scope, env)
RegisterInstanceCall(t, k, sc, e) ==
    /\ ~Busy(t)
    /\ LET free == Available(registry, k, e) IN
        /\ registry' = IF free THEN [registry EXCEPT ![k][e] = Unbound("instance", sc, e)]
                               ELSE registry
        /\ stack' = Push(t, ProviderCall("register_instance", k, "instance", sc, e, ~free,
                        IF free THEN PyNone ELSE Raised("DoubleRegistrationError", k, e)))
    /\ UNCHANGED <<injs, lock, calls, tears, closing>>

\* The providers that are attached: each the sequence of its entries, in the
\* order attach visits them.
OtherProviders ==
    << <<Entry("foo", "generator", NoScope, NoEnv)>>,
       <<Entry("foo", "function", "sc1", "testing"), Entry("db", "instance", NoScope, NoEnv)>>,
       <<Entry("db", "function", NoScope, NoEnv), Entry("foo", "instance", NoScope, NoEnv)>> >>

\* some entry of the other provider is registered in reg already
Collides(reg, entries) ==
    \E n \in 1..Len(entries) : reg[entries[n].key][entries[n].env].kind # "none"

\* Provider.attach(provider), for the n-th of the other providers
AttachCall(t, n) ==
    /\ ~Busy(t)
    /\ n \in 1..Len(OtherProviders)
    /\ LET r == AttachFrom(registry, OtherProviders[n]) IN
        /\ registry' = r.reg
        /\ stack' = Push(t, [ProviderCall("attach", "", "none", NoScope, NoEnv,
                                Collides(registry, OtherProviders[n]), r.out)
                                EXCEPT !.idx = n])
    /\ UNCHANGED <<injs, lock, calls, tears, closing>>

\* what the registrations of the provider are given
RegKeys == {"foo", "db"}
RegEnvs == {NoEnv, "testing"}
RegScopes == {NoScope, "sc1"}

\* One thread fills a provider that starts empty.
ProvInit == Fresh(EmptyProvider, {NoEnv})

ProvNext ==
    \/ \E k \in RegKeys, sc \in RegScopes, e \in RegEnvs :
        \/ \E fn \in {"function", "generator"} : RegisterFuncCall(1, "register_func", k, fn, sc, e)
        \/ RegisterFuncCall(1, "provides", k, "function", sc, e)
        \/ RegisterInstanceCall(1, k, sc, e)
    \/ \E n \in 1..Len(OtherProviders) : AttachCall(1, n)
    \/ Return(1)

ProvSpec == ProvInit /\ [][ProvNext]_vars

RegisterOps == {"register_func", "provides", "register_instance"}

\* C12: a register_func, register_instance or provides for a (key,
\* environment) pair that is registered raises DoubleRegistrationError with
\* that key and environment, and an attach of a provider holding a registered
\* pair raises it with such a pair; a registration for a pair that is not
\* registered, the key being registered under another environment or not,
\* is accepted and is what get(key, environment) returns from then on; and
\* no call ever changes what is registered for a pair.
C12_DoubleRegistrationRejected ==
    /\ [](\A t \in Threads :
            (Busy(t) /\ stack[t][1].op \in RegisterOps)
            => LET f == stack[t][1] IN
                IF f.pre
                THEN f.out = Raised("DoubleRegistrationError", f.key, f.env)
                ELSE /\ ~IsError(f.out)
                     /\ ProviderGet(registry, f.key, f.env) = Unbound(f.fn, f.sc, f.env))
    /\ [](\A t \in Threads :
            (Busy(t) /\ stack[t][1].op = "attach")
            => LET f == stack[t][1]
                   other == OtherProviders[f.idx]
               IN
                IF f.pre
                THEN /\ f.out.tag = "DoubleRegistrationError"
                     /\ \E n \in 1..Len(other) :
                            /\ other[n].key = f.out.key /\ other[n].env = f.out.env
                            /\ registry[f.out.key][f.out.env].kind # "none"
                ELSE /\ f.out = PyNone
                     /\ \A n \in 1..Len(other) :
                            registry[other[n].key][other[n].env] = other[n].unbound)
    /\ [][\A k \in Keys, e \in Envs :
            registry[k][e].kind # "none"
            => /\ registry'[k][e] = registry[k][e]
               /\ ProviderGet(registry', k, e) = ProviderGet(registry, k, e)]_vars

\* register_func("foo", <a function>, env="testing") has raised: a generator
\* is registered for ("foo", "testing"), and "foo" is registered without
\* environment too
C12_Witness ==
    \E t \in Threads :
        /\ Finished(t, "register_func")
        /\ stack[t][1].key = "foo" /\ stack[t][1].env = "testing"
        /\ stack[t][1].fn = "function"
        /\ stack[t][1].out.tag = "DoubleRegistrationError"
        /\ registry["foo"]["testing"].kind = "generator"
        /\ registry["foo"][NoEnv].kind # "none"

\* key k is registered neither for the environment of injector i nor
\* without environment
Unregistered(i, k) ==
    registry[k][injs[i].env].kind = "none" /\ registry[k][NoEnv].kind = "none"

\* C13: an inject(key) on an open injector, the key being registered neither
\* for the injector's environment nor without environment, raises
\* NoProviderFoundError with that key and the injector's own environment, and
\* while it runs no injector changes: every cache, and what is open, stay as
\* they were, and no function is invoked.
C13_NotFoundChangesNothing ==
    /\ [](\A t \in Threads :
            (/\ Finished(t, "inject") /\ ~stack[t][1].pre
             /\ Unregistered(stack[t][1].inj, stack[t][1].key))
            => /\ stack[t][1].out = Raised("NoProviderFoundError", stack[t][1].key,
                                           injs[stack[t][1].inj].env)
               /\ ~IsClosed(stack[t][1].inj))
    /\ [][\A t \in Threads :
            (/\ Within(t, "inject") /\ ~stack[t][1].pre
             /\ Unregistered(stack[t][1].inj, stack[t][1].key))
            => injs' = injs /\ calls' = calls /\ tears' = tears]_vars

\* inject("missing") on a scoped injector of environment "testing" that holds
\* the object of "conn" has raised
C13_Witness ==
    \E t \in Threads :
        /\ Finished(t, "inject") /\ stack[t][1].key = "missing"
        /\ stack[t][1].inj = 2 /\ injs[2].env = "testing"
        /\ injs[2].cache["conn"].inst.tag = "obj"
        /\ stack[t][1].out = Raised("NoProviderFoundError", "missing", "testing")

\* ----------------------------------------------------------------------- C14
\* The provider holds a coroutine-based or an async-generator-based factory,
\* under some key and environment.
RegistersAwaitable ==
    \E k \in Keys, e \in Envs : registry[k][e].kind \in {"coroutine", "asyncgenerator"}

\* C14: a close() made on an open injector that returns, returns a pending
\* operation (a coroutine) if and only if the provider holds an awaitable
\* factory, injected or not; when the provider holds none, close() returns
\* None and the injector is closed when it returns.
C14_CloseAwaitableIffProviderHasAwaitables ==
    \A t \in Threads :
        (Finished(t, "close") /\ ~stack[t][1].pre /\ ~IsError(stack[t][1].out)) =>
            LET f == stack[t][1] IN
            /\ (f.out.tag = "coroutine") <=> RegistersAwaitable
            /\ ~RegistersAwaitable => (f.out = PyNone /\ IsClosed(f.inj))

\* close() has returned a coroutine on an injector that no awaitable factory
\* was ever injected from.
C14_Witness ==
    /\ Finished(1, "close") /\ ~stack[1][1].pre
    /\ stack[1][1].out.tag = "coroutine"
    /\ injs[1].order # <<>>
    /\ \A k \in Keys : injs[1].cache[k].kind \notin AwaitableKinds

\* ----------------------------------------------------------------------- C15
\* Thread t's outermost call is a close, an awaited close or a with
\* statement, and it has finished.
ClosingFinished(t) ==
    /\ Len(stack[t]) = 1
    /\ stack[t][1].op \in {"close", "aclose", "with", "awith"}
    /\ stack[t][1].pc = "done"

\* C15: when a close, an awaited close or the exit of a with statement
\* raises what the teardown code of an injected generator-based or
\* async-generator-based factory raised, the exception reaches the caller
\* and the injector is closed.
C15_TeardownFailureStillCloses ==
    \A t \in Threads :
        (ClosingFinished(t) /\ stack[t][1].out.tag = "TeardownError") =>
            IsClosed(stack[t][1].inj)

\* ----------------------------------------------------------------------- C16
\* The generator-based and async-generator-based factories of injector i
\* whose setup code has run: those that were injected and, when
\* asynchronous, awaited.
SetUp(i) ==
    {k \in Keys : /\ injs[i].cache[k].kind \in {"generator", "asyncgenerator"}
                  /\ calls[i][k] > 0}

\* C16: when a close, an awaited close or the exit of a with statement has
\* raised what the teardown code of one injected factory raised, the
\* teardown code of every injected generator-based or async-generator-based
\* factory has run exactly once.
C16_OtherTeardownsStillRun ==
    \A t \in Threads :
        (ClosingFinished(t) /\ stack[t][1].out.tag = "TeardownError") =>
            \A k \in SetUp(stack[t][1].inj) : tears[stack[t][1].inj][k] = 1

\* ----------------------------------------------------------------------- C17
\* Thread t has left a with statement of kind op, entered on an open
\* injector, whose body raised an exception.
LeftByException(t, op) ==
    /\ Finished(t, op)
    /\ ~stack[t][1].pre
    /\ stack[t][1].exc # PyNone

\* The injected factories of the given kind on injector i whose generator
\* still waits at its yield: neither its teardown code nor its exception
\* branch has run.
StillAtYield(i, kind) ==
    {k \in SetUp(i) : injs[i].cache[k].kind = kind /\ injs[i].cache[k].gen = "suspended"}

\* C17: when the body of `with injector:` (`async with injector:`) has raised
\* E and the statement is left, E has been thrown into every injected
\* generator-based (async-generator-based) factory waiting at its yield, so
\* that none of them is left there, and E is what leaves the statement.
C17_BodyExceptionReachesEveryGenerator ==
    \A t \in Threads :
        /\ LeftByException(t, "with") =>
            /\ stack[t][1].out = stack[t][1].exc
            /\ StillAtYield(stack[t][1].inj, "generator") = {}
        /\ LeftByException(t, "awith") =>
            /\ stack[t][1].out = stack[t][1].exc
            /\ StillAtYield(stack[t][1].inj, "asyncgenerator") = {}

\* ----------------------------------------------------------------------- C18
\* Thread t has left a with statement of kind op normally, or by the
\* exception that its body raised.
Left(t, op) ==
    /\ Finished(t, op)
    /\ stack[t][1].out = stack[t][1].exc

\* C18: when control has left `with injector:` on a provider of synchronous
\* factories only, or `async with injector:` on any provider, normally or
\* by an exception of the body, the injector is closed.
C18_ClosedAfterWith ==
    \A t \in Threads :
        /\ (Left(t, "with") /\ ~RegistersAwaitable) => IsClosed(stack[t][1].inj)
        /\ Left(t, "awith") => IsClosed(stack[t][1].inj)

\* ----------------------------------------------------------------------- C19
\* Thread t has awaited what inject(k) returned for a coroutine-based
\* factory of an open injector, and the await has finished.
AwaitedCoroutine(t) ==
    /\ Busy(t) /\ Top(t).op = "aget" /\ Top(t).pc = "done"
    /\ injs[Top(t).inj].cache[Top(t).key].kind = "coroutine"
    /\ ~IsClosed(Top(t).inj)

\* C19: awaiting the result of inject(key) for a coroutine-based factory
\* gives the value that the one run of the coroutine function returned: the
\* first await runs it, every later await gives the same value, and the
\* function's code has run once.
C19_CoroutineAwaitedOnce ==
    \A t \in Threads :
        AwaitedCoroutine(t) =>
            LET f == Top(t) IN
            /\ f.out = Obj(f.key, injs[f.inj].cache[f.key].env, f.inj, 1)
            /\ calls[f.inj][f.key] = 1

\* a later await of inject("co") has returned the value kept by the factory
C19_Witness ==
    /\ AwaitedCoroutine(1)
    /\ Top(1).key = "co"
    /\ Top(1).phase = "cached"
    /\ Top(1).out = Obj("co", NoEnv, 1, 1)

\* ----------------------------------------------------------------------- C20
\* base.NULL, the sentinel: no construction function produces it, and it is
\* not None.
Null == Val("NULL", "", "", 0, 0)

\* Thread t has got, from a closed injector, what get_instance of the bound
\* factory cached for the key returns: from inject for a function-,
\* instance- or generator-based factory, from the await of what inject
\* returned for a coroutine- or async-generator-based one.
GotFromClosedFactory(t) ==
    /\ Busy(t) /\ Top(t).pc = "done"
    /\ Top(t).op \in {"inject", "aget"}
    /\ IsClosed(Top(t).inj)
    /\ Cached(Top(t).inj, Top(t).key)
    /\ ~IsError(Top(t).out)
    /\ Top(t).op = "inject" =>
            injs[Top(t).inj].cache[Top(t).key].kind \notin AwaitableKinds

\* C20: after close, get_instance of a bound factory of any kind returns
\* the NULL sentinel.
C20_ClosedFactoryReturnsNull ==
    \A t \in Threads : GotFromClosedFactory(t) => Top(t).out = Null

\* ----------------------------------------------------------------------- C30
\* the place of key k in the cache of injector i, 0 when it is not there
Position(i, k) ==
    IF \E j \in 1..Len(injs[i].order) : injs[i].order[j] = k
    THEN CHOOSE j \in 1..Len(injs[i].order) : injs[i].order[j] = k
    ELSE 0

\* The entries that the loop of call f closes: _do_close closes the
\* factories that are not awaitable, do_async_close awaits the close of the
\* awaitable ones.
ClosedBy(f, k) ==
    IF f.op = "aclose"
    THEN injs[f.inj].cache[k].kind \in AwaitableKinds
    ELSE injs[f.inj].cache[k].kind \notin AwaitableKinds

\* Call f, a close or an awaited close, has raised what the teardown code of
\* an entry of its injector raised.
RaisedByTeardown(f) ==
    /\ f.op \in {"close", "aclose"}
    /\ f.pc = "done"
    /\ f.out.tag = "TeardownError"

C26_GeneratorBuiltBeforeAnyGet ==
    \A t \in Threads :
        (/\ Finished(t, "inject")
         /\ NotClosing(stack[t][1].inj)
         /\ Found(stack[t][1].inj, stack[t][1].key).kind = "generator") =>
            LET f == stack[t][1] IN
            /\ f.out = Obj(f.key, NoEnv, f.inj, 1)
            /\ calls[f.inj][f.key] = 1
            /\ tears[f.inj][f.key] = 0

\* ----------------------------------------------------------------------- C27
\* C27: whatever call a thread makes on an injector or on its scoped child
\* while other threads inject and close, the inject on the child of a key
\* of the parent's scope and the close of the parent included, returns or
\* raises in the end.
C27_InjectAndCloseNeverBlockForever ==
    \A t \in Threads : Busy(t) ~> ~Busy(t)

\* ----------------------------------------------------------------------- C28
\* The n-th call in progress of thread t is an inject that has delegated to
\* the parent of its injector: the parent's inject has been called and has
\* not returned yet.
Delegating(t, n) ==
    /\ stack[t][n].op = "inject"
    /\ stack[t][n].pc = "delegated"

\* C28: while the parent's inject that a scoped injector's inject delegated
\* to runs, the thread does not hold the scoped injector's lock.
C28_LockReleasedBeforeDelegation ==
    \A t \in Threads : \A n \in 1..Len(stack[t]) :
        Delegating(t, n) => lock[stack[t][n].inj].owner # t

\* ----------------------------------------------------------------------- C29
\* The entries of injector j whose generator, synchronous or asynchronous,
\* waits at its yield for its teardown.
AwaitingTeardown(j) ==
    {k \in Keys : /\ injs[j].cache[k].kind \in {"generator", "asyncgenerator"}
                  /\ injs[j].cache[k].gen = "suspended"}

\* A step in which the teardown code of one of injector i's own cached
\* entries runs.
TearsDownOwnEntry(i) == \E k \in Keys : tears'[i][k] > tears[i][k]

\* C29: whenever the teardown code of one of an injector's own cached
\* entries runs, the closing of all its descendants is finished: none of
\* them has a generator-based or async-generator-based factory that still
\* waits for its teardown.
C29_DescendantsClosedBeforeOwnEntries ==
    [][\A i \in Live :
          TearsDownOwnEntry(i) => \A j \in Descendants(i) : AwaitingTeardown(j) = {}]_vars

\* ----------------------------------------------------------------------- C21
\* the keys that the construction function registered under k injects, and
\* those that their construction functions inject, and so on
RECURSIVE NeededBy(_, _)
NeededBy(k, depth) ==
    LET direct == {registry[k][NoEnv].needs[n] : n \in 1..Len(registry[k][NoEnv].needs)} IN
    IF depth = 0 THEN direct
    ELSE direct \cup UNION {NeededBy(x, depth - 1) : x \in direct}

AllNeededBy(k) == NeededBy(k, Cardinality(Keys))

\* The n-th call in progress of thread t is an inject made by a construction
\* function on the injector whose lock its caller, the inject that runs the
\* function, holds.
NestedCall(t, n) ==
    /\ n > 1
    /\ stack[t][n - 1].op = "inject" /\ stack[t][n - 1].pc = "construct"
    /\ stack[t][n - 1].held
    /\ stack[t][n].inj = stack[t][n - 1].inj

\* C21: an inject that a construction function makes on the injector it was
\* given never waits for the injector's lock, which its thread holds
\* already; and when inject(key) has returned, the key and every key that
\* its construction injected, directly or not, are cached on the injector,
\* each constructed once, and no inject has raised.
C21_NestedInjectionsCompleteAndCache ==
    /\ \A t \in Threads : \A n \in 1..Len(stack[t]) :
        (NestedCall(t, n) /\ stack[t][n].pc = "acquire") =>
            lock[stack[t][n].inj].owner = t
    /\ \A t \in Threads :
        Finished(t, "inject") =>
            LET f == stack[t][1] IN
            /\ f.out = Obj(f.key, NoEnv, f.inj, 1)
            /\ \A x \in {f.key} \cup AllNeededBy(f.key) :
                Cached(f.inj, x) /\ calls[f.inj][x] = 1

\* inject("cfg") has returned: its function injected "conn", whose function
\* injected "foo" and "db"
C21_Witness ==
    /\ Finished(1, "inject")
    /\ stack[1][1].key = "cfg"
    /\ stack[1][1].out = Obj("cfg", NoEnv, 1, 1)
    /\ stack[1][1].held
    /\ injs[1].order = <<"foo", "db", "conn", "cfg">>

\* ----------------------------------------------------------------------- C22
\* the mapping of named parameters of a Variant
Mapping(v) == Items(v.kwargs)

\* C22: two Variants compare equal exactly when their base keys are equal
\* and their mappings of named parameters are equal, in whatever order the
\* parameters were given, and Variants that compare equal have equal hashes.
C22_VariantEqualityAndHash ==
    \A t \in Threads :
        Finished(t, "compare") =>
            LET f == stack[t][1] IN
            /\ f.out.eq <=> (f.a.key = f.b.key /\ Mapping(f.a) = Mapping(f.b))
            /\ f.out.eq => f.out.ha = f.out.hb

\* ----------------------------------------------------------------------- C23
\* the keys that one function is registered under
StackedKeys == {"IFoo1", "IFoo2"}

\* C23: with one function registered under several keys, an inject of one
\* of the keys returns the object that the function built when it was given
\* that very key, each key has its own cache entry holding that object, and
\* the function has run once for each key that has an entry and not at all
\* for a key that has none.
C23_StackedKeysCacheIndependently ==
    /\ \A t \in Threads :
        (Finished(t, "inject") /\ stack[t][1].key \in StackedKeys) =>
            LET f == stack[t][1] IN
            /\ f.out = Obj(f.key, NoEnv, f.inj, 1)
            /\ injs[f.inj].cache[f.key].inst = f.out
    /\ \A k \in StackedKeys :
        /\ calls[1][k] = IF Cached(1, k) THEN 1 ELSE 0
        /\ Cached(1, k) => injs[1].cache[k].inst.key = k
    /\ \A k1, k2 \in StackedKeys :
        (k1 # k2 /\ Cached(1, k1) /\ Cached(1, k2)) =>
            injs[1].cache[k1].inst # injs[1].cache[k2].inst

\* IFoo2 was injected after IFoo1: the function has run once for each, and
\* the function of 'mock', which both runs injected, once
C23_Witness ==
    /\ Finished(1, "inject") /\ stack[1][1].key = "IFoo2"
    /\ stack[1][1].out = Obj("IFoo2", NoEnv, 1, 1)
    /\ injs[1].cache["IFoo1"].inst = Obj("IFoo1", NoEnv, 1, 1)
    /\ calls[1]["IFoo1"] = 1 /\ calls[1]["IFoo2"] = 1 /\ calls[1]["mock"] = 1

\* ----------------------------------------------------------------------- C24
\* C24: when update_path has rewritten a file and then, with the same
\* parameters, rewrites the result, the second rewrite leaves the content
\* that the first one produced, with one preamble and not two.
C24_SecondRewriteChangesNothing ==
    \A t \in Threads :
        (Finished(t, "update_path") /\ stack[t][1].run = 2
            /\ ~IsError(stack[t][1].out)) =>
                /\ stack[t][1].path = stack[t][1].orig
                /\ stack[t][1].old = Missing

\* a file with an interpreter directive and a preamble of its own was
\* rewritten twice
C24_Witness ==
    /\ Finished(1, "update_path") /\ stack[1][1].run = 2
    /\ ~IsError(stack[1][1].out)
    /\ stack[1][1].first = <<Shebang, MarkerLine, Code, MarkerLine>>
    /\ stack[1][1].path = <<Shebang>> \o Preamble

\* ----------------------------------------------------------------------- C25
\* the operations of the two tools that rewrite a file
RewriteOps == {"update_path", "update_license", "overwrite"}

\* C25: when a rewrite of a file by either tool ends with an exception, the
\* file has the content it had before the rewrite.
C25_FailedRewriteRestoresFile ==
    \A t \in Threads :
        (Busy(t) /\ Top(t).op \in RewriteOps /\ Top(t).pc = "done"
            /\ IsError(Top(t).out)) =>
                Top(t).path = Top(t).orig

\* ----------------------------------------------------------------------- C40
\* the steps of update_path that the interpreter takes when nothing fails
UpdatePathStep(t) ==
    \/ UpdatePathMove(t)
    \/ UpdatePathOpen(t)
    \/ UpdatePathPreamble(t)
    \/ UpdatePathSkip(t)
    \/ UpdatePathCopy(t)
    \/ UpdatePathDone(t)

\* the tools run on, a rewrite that can take a step takes one
ToolFairSpec == ToolSpec /\ WF_vars(UpdatePathStep(1))

\* update_path has been called and has neither returned nor raised
Rewriting(t) == Busy(t) /\ Top(t).op = "update_path" /\ Top(t).pc # "done"

\* C40: every rewrite of a file by update_path comes to an end, whatever the
\* content of the file.
C40_RewriteTerminates == \A t \in Threads : Rewriting(t) ~> ~Rewriting(t)

\* ----------------------------------------------------------------------- C39
\* what the provider holds for the n-th entry of a provider that is attached
Held(reg, entries, n) == reg[entries[n].key][entries[n].env]

\* C39: when attach raises DoubleRegistrationError, it raises it for an entry
\* of the other provider that was registered here; the entries visited
\* before that one are registered from then on, as the other provider had
\* them, and that entry and the entries after it are left as they were.
C39_AttachCopiesUpToCollision ==
    [][\A t \in Threads :
        (~Busy(t) /\ stack'[t] # <<>> /\ stack'[t][1].op = "attach"
            /\ IsError(stack'[t][1].out)) =>
                LET f == stack'[t][1]
                    es == OtherProviders[f.idx]
                IN  \E c \in 1..Len(es) :
                        /\ Held(registry, es, c).kind # "none"
                        /\ f.out = Raised("DoubleRegistrationError", es[c].key, es[c].env)
                        /\ \A n \in 1..Len(es) :
                            Held(registry', es, n) =
                                IF n < c THEN es[n].unbound ELSE Held(registry, es, n)
    ]_vars

\* the attach of a provider with entries for "db" and for "foo" has raised
\* for "foo", and its factory of "db", not registered before, is registered
C39_Witness ==
    /\ Finished(1, "attach")
    /\ stack[1][1].idx = 3
    /\ stack[1][1].out = Raised("DoubleRegistrationError", "foo", NoEnv)
    /\ registry["db"][NoEnv] = OtherProviders[3][1].unbound
    /\ registry["foo"][NoEnv].kind = "generator"

\* ----------------------------------------------------------------------- C31
\* the injectors that pass an inject(k) made on injector i on to their
\* parent: those from i up to, and without, the owner o
Delegators(i, o) == {j \in Chain(i) : j # o /\ o \in Chain(j)}

\* C31: as long as no injector is closed, an injector caches a bound factory
\* only for a key whose factory has the injector's scope, and two injectors
\* never hold the same instance; when inject(key) has returned, the nearest
\* injector of the factory's scope, from the caller towards the root, has the
\* bound factory in its cache, the object returned is the instance of that
\* bound factory, and no injector that passed the call on has cached
\* anything for the key.
C31_CachedByNearestInjectorOfScope ==
    (\A i \in Live : ~closing[i]) =>
        /\ \A i \in Live, k \in Keys :
            Cached(i, k) => Found(i, k).scope = injs[i].scope
        /\ \A i, j \in Live, k \in Keys :
            (i # j /\ injs[i].cache[k].inst.tag = "obj")
                => injs[i].cache[k].inst # injs[j].cache[k].inst
        /\ \A t \in Threads :
            (Finished(t, "inject") /\ ~IsError(stack[t][1].out)) =>
                LET f == stack[t][1]
                    o == Owner(f.inj, f.key)
                IN  /\ o # 0
                    /\ Cached(o, f.key)
                    /\ f.out = injs[o].cache[f.key].inst
                    /\ f.out.owner = o
                    /\ \A j \in Delegators(f.inj, o) : ~Cached(j, f.key)

\* inject("db") on an injector two scoped() calls away from the root has
\* returned the object that the root has cached, while the injector of scope
\* "sc1" in between holds its own object for "conn"
C31_Witness ==
    /\ Finished(1, "inject") /\ stack[1][1].inj = 3 /\ stack[1][1].key = "db"
    /\ injs[3].parent = 2 /\ injs[2].parent = 1 /\ injs[2].scope = "sc1"
    /\ \A i \in Live : ~closing[i]
    /\ stack[1][1].out = injs[1].cache["db"].inst
    /\ stack[1][1].out.tag = "obj"
    /\ Cached(2, "conn") /\ ~Cached(2, "db") /\ ~Cached(3, "db")

\* ----------------------------------------------------------------------- C32
\* C32: an object that inject(key) returns on an open injector of
\* environment E, no injector up to the root being closed, is built by the
\* factory registered for (key, E) when there is such a registration, also
\* when an ancestor of the injector has served the call.
C32_OwnEnvironmentAlsoWhenDelegated ==
    \A t \in Threads :
        (/\ Finished(t, "inject")
         /\ NotClosing(stack[t][1].inj)
         /\ registry[stack[t][1].key][injs[stack[t][1].inj].env].kind # "none"
         /\ stack[t][1].out.tag = "obj")
        => /\ stack[t][1].out.key = stack[t][1].key
           /\ stack[t][1].out.env = injs[stack[t][1].inj].env

\* ----------------------------------------------------------------------- C35
\* the steps of _do_close in which close is called on the children and on
\* the cached factories
Issuing == {"kids", "cache", "cache_run", "finish"}

\* C35: on a provider with awaitable factories, the injector is open as long
\* as its _do_close calls close on its children and on its cached factories,
\* it is open when close() has returned the coroutine and as long as the
\* coroutine has not started, and it is closed from the start of the
\* coroutine on, that is whenever the coroutine awaits one of the collected
\* awaitables.
C35_ClosedWhenPendingCloseStarts ==
    \A t \in Threads : \A n \in 1..Len(stack[t]) :
        LET f == stack[t][n] IN
        /\ (f.op = "close" /\ f.pc \in Issuing /\ RegistersAwaitable)
                => ~IsClosed(f.inj)
        /\ (f.op = "close" /\ f.pc = "done" /\ f.out.tag = "coroutine")
                => ~IsClosed(f.inj)
        /\ (f.op = "aclose" /\ f.pc = "start") => ~IsClosed(f.inj)
        /\ (f.op = "aclose" /\ f.pc \in {"kids", "loop"}) => IsClosed(f.inj)

\* the coroutine that close() returned has started and is about to await the
\* close of the asynchronous generator, whose teardown has not run
C35_Witness ==
    /\ At(1, "aclose", "loop") /\ Top(1).idx = 1 /\ Top(1).len = 1
    /\ injs[1].order = <<"ag">>
    /\ injs[1].cache["ag"].gen = "suspended" /\ tears[1]["ag"] = 0
    /\ IsClosed(1)

\* ------------------------------------------------------------------ C33
\* C33: when the coroutine that close() returned has been awaited to its end
\* without an exception, every factory of the cache is one that _do_close
\* called close() on: the cache has no more entries than it had when
\* _do_close went through it.  Tasks inject at any point where the closing
\* task does not run, between close() and the await included.
C33_CompletedCloseClosedWholeCache ==
    (Finished(Closer, "aclose") /\ ~IsError(stack[Closer][1].out))
        => Len(injs[1].order) <= stack[Closer][1].len

\* ------------------------------------------------------------------ C34
\* C34: on an injector that nobody closes, the await of what inject(key)
\* returned for a coroutine function or an asynchronous generator gives the
\* one instance of the one construction, to every task and without an
\* exception, also when another task's await of the same factory is
\* suspended in the construction.
C34_ConcurrentAwaitsShareOneConstruction ==
    \A t \in Threads : \A k \in TaskKeys :
        (Finished(t, "aget") /\ stack[t][1].key = k /\ ~closing[1])
            => /\ stack[t][1].out = Obj(k, NoEnv, 1, 1)
               /\ calls[1][k] = 1

\* ------------------------------------------------------------------ C36
\* C36: an inject(key) whose construction function raises, a plain function
\* or a generator function, gives its caller the exception that the function
\* raised and leaves no bound factory for the key in the cache; every
\* inject(key) runs the function again and so ends the same way.
C36_RaisingConstructionCachesNothing ==
    \A t \in Threads : \A k \in SetupErrorKeys :
        (Finished(t, "inject") /\ stack[t][1].key = k)
            => /\ stack[t][1].out = Raised("SetupError", k, "")
               /\ ~Cached(1, k)

\* ------------------------------------------------------------------ C37
\* the keys that the construction function registered under k injects
NeedsOf(k) == {Nested(registry[k][NoEnv])[n] : n \in 1..Len(Nested(registry[k][NoEnv]))}

\* C37: a construction function runs in the inject of the injector that
\* owns its key, the nearest injector of the factory's scope, and the
\* injects it makes are made on that injector: every call above it on the
\* thread's stack runs on the owner or on an ancestor of the owner.  When a
\* close of a scoped injector has ended, every object that an instance held
\* by one of its ancestors has injected is still held, not closed, by that
\* ancestor or one of its own ancestors, unless one of these is being closed
\* as well.
C37_ConstructionInjectsFromOwner ==
    /\ \A t \in Threads : \A n \in 1..Len(stack[t]) :
        LET f == stack[t][n] IN
        (f.op = "inject" /\ f.pc = "construct")
            => /\ injs[f.inj].scope = Found(f.inj, f.key).scope
               /\ n < Len(stack[t]) => stack[t][n + 1].inj = f.inj
               /\ \A m \in (n + 1)..Len(stack[t]) : stack[t][m].inj \in Chain(f.inj)
    /\ \A t \in Threads :
        Finished(t, "close")
            => \A a \in Chain(stack[t][1].inj) \ {stack[t][1].inj} : \A k \in Keys :
                (NotClosing(a) /\ Cached(a, k))
                    => \A k2 \in NeedsOf(k) : \E j \in Chain(a) :
                            /\ Cached(j, k2)
                            /\ injs[j].cache[k2].inst.tag = "obj"
                            /\ injs[j].cache[k2].inst.owner = j

\* the grandchild has been closed after it gave the instance of "cfg", whose
\* function got "conn" from the child, whose function got "foo" from the root
\* and "db" from the child: the three are where they were
C37_Witness ==
    /\ \E t \in Threads : Finished(t, "close") /\ stack[t][1].inj = 3
                            /\ ~IsError(stack[t][1].out)
    /\ IsClosed(3) /\ ~closing[2] /\ ~closing[1]
    /\ injs[3].cache["cfg"].inst = PyNone
    /\ injs[2].cache["conn"].inst = Obj("conn", NoEnv, 2, 1)
    /\ injs[2].cache["db"].inst = Obj("db", NoEnv, 2, 1)
    /\ injs[1].cache["foo"].inst = Obj("foo", NoEnv, 1, 1)

\* ------------------------------------------------------------------ C38
\* _do_close of the closing task has called close() on the factory of key k:
\* the coroutine it returned, not awaited to its end, was given the
\* awaitables of the first entries of the cache, and k is one of them
CloseCalled(k) ==
    /\ Busy(Closer)
    /\ LET f == stack[Closer][1]
           n == IF f.op = "aclose" THEN f.len
                ELSE IF f.op = "close" /\ f.pc \in {"done", "pending"}
                        /\ f.out.tag = "coroutine" THEN f.out.n
                ELSE 0
       IN \E m \in 1..n : injs[1].order[m] = k

\* C38: when close() has been called on a bound factory, no get_instance()
\* called after it runs the construction function: the number of runs of
\* the function stays what it was, and the teardown code of an asynchronous
\* generator whose setup code had not run does not run.
C38_NoConstructionAfterClose ==
    [][\A k \in TaskKeys :
        CloseCalled(k) => /\ calls'[1][k] = calls[1][k]
                          /\ calls[1][k] = 0 => tears'[1][k] = 0]_vars
====
